---- MODULE Spec2Model ----
(***************************************************************************)
(* A model of the caching Go module proxy (ganboing/goproxy): the          *)
(* pass-through monitor, the request- and repository-level deduplication,  *)
(* the bounded clone worker pool and the on-disk cache layout.             *)
(*                                                                         *)
(* Go strings are sequences of one-character strings, so that the string   *)
(* functions of the code (Cut, Ext, TrimSuffix, ...) are computed as the   *)
(* code computes them.  Remote URLs are only ever compared with "" by the  *)
(* code and stay atomic strings.                                           *)
(***************************************************************************)
EXTENDS Integers, Sequences, FiniteSets, Bags, TLC

\* ------------------------------------------------------------------ bounds

\* runtime.NumCPU(): the queue capacity and the initial permit count.
NumCPU == 1

\* The number of requests the HTTP front-end receives in one run.
MaxReq == 3

\* ----------------------------------------------------------- Go's strings

Min(a, b) == IF a < b THEN a ELSE b

\* s[i:j] of Go, on 1-based sequences: the characters at 0-based i .. j-1.
Slice(s, i, j) == SubSeq(s, i + 1, j)

HasPrefix(s, p) == Len(s) >= Len(p) /\ SubSeq(s, 1, Len(p)) = p

HasSuffix(s, p) == Len(s) >= Len(p) /\ SubSeq(s, Len(s) - Len(p) + 1, Len(s)) = p

TrimPrefix(s, p) == IF HasPrefix(s, p) THEN SubSeq(s, Len(p) + 1, Len(s)) ELSE s

TrimSuffix(s, p) == IF HasSuffix(s, p) THEN SubSeq(s, 1, Len(s) - Len(p)) ELSE s

\* strings.TrimRight(s, c) for a one-character cutset.
TrimRight(s, c) ==
    LET keep == {i \in 1..Len(s) : s[i] # c}
    IN  IF keep = {} THEN <<>> ELSE SubSeq(s, 1, CHOOSE i \in keep : \A j \in keep : j <= i)

\* strings.TrimLeft(s, c) for a one-character cutset.
TrimLeft(s, c) ==
    LET keep == {i \in 1..Len(s) : s[i] # c}
    IN  IF keep = {} THEN <<>> ELSE SubSeq(s, CHOOSE i \in keep : \A j \in keep : i <= j, Len(s))

\* strings.IndexByte in the place of LastIndexByte: the first c in s.
FirstIndexByte(s, c) ==
    LET at == {i \in 1..Len(s) : s[i] = c}
    IN  IF at = {} THEN -1 ELSE (CHOOSE i \in at : \A j \in at : i <= j) - 1

\* strings.LastIndexByte: the 0-based index of the last c in s, or -1.
LastIndexByte(s, c) ==
    LET at == {i \in 1..Len(s) : s[i] = c}
    IN  IF at = {} THEN -1 ELSE (CHOOSE i \in at : \A j \in at : j <= i) - 1

\* strings.Index: the 0-based index of the first occurrence of sub in s, or -1.
Index(s, sub) ==
    LET at == {i \in 0..(Len(s) - Len(sub)) : SubSeq(s, i + 1, i + Len(sub)) = sub}
    IN  IF at = {} THEN -1 ELSE CHOOSE i \in at : \A j \in at : i <= j

\* strings.Count(s, c) for a one-character c.
Count(s, c) == Cardinality({i \in 1..Len(s) : s[i] = c})

\* strings.Cut(s, sep).
Cut(s, sep) ==
    LET i == Index(s, sep)
    IN  IF i = -1
        THEN [before |-> s, after |-> <<>>, found |-> FALSE]
        ELSE [before |-> Slice(s, 0, i), after |-> Slice(s, i + Len(sep), Len(s)),
              found |-> TRUE]

\* strings.CutSuffix(s, suffix).
CutSuffix(s, suffix) ==
    IF HasSuffix(s, suffix)
    THEN [before |-> SubSeq(s, 1, Len(s) - Len(suffix)), found |-> TRUE]
    ELSE [before |-> s, found |-> FALSE]

\* path.Ext: the suffix of s from the last dot of its last '/'-separated
\* element, or the empty string when that element has no dot.
PathExt(s) ==
    LET slash == LastIndexByte(s, "/")
        dot   == LastIndexByte(s, ".")
    IN  IF dot > slash THEN Slice(s, dot, Len(s)) ELSE <<>>

\* strings.Split(s, "/").
RECURSIVE SplitSlash(_)
SplitSlash(s) ==
    LET c == Cut(s, <<"/">>)
    IN  IF c.found THEN <<c.before>> \o SplitSlash(c.after) ELSE <<s>>

\* strings.Join(elems, "/").
RECURSIVE JoinSlash(_)
JoinSlash(elems) ==
    IF Len(elems) = 0 THEN <<>>
    ELSE IF Len(elems) = 1 THEN elems[1]
    ELSE elems[1] \o <<"/">> \o JoinSlash(Tail(elems))

Digits == {"0", "1", "2", "3", "4", "5", "6", "7", "8", "9"}

Lower == {"a", "b", "c", "d", "e", "f", "g", "h", "i", "j", "k", "l", "m",
          "n", "o", "p", "q", "r", "s", "t", "u", "v", "w", "x", "y", "z"}

Upper == {"A", "B", "C", "D", "E", "F", "G", "H", "I", "J", "K", "L", "M",
          "N", "O", "P", "Q", "R", "S", "T", "U", "V", "W", "X", "Y", "Z"}


LowerSeq == <<"a", "b", "c", "d", "e", "f", "g", "h", "i", "j", "k", "l", "m",
              "n", "o", "p", "q", "r", "s", "t", "u", "v", "w", "x", "y", "z">>

UpperSeq == <<"A", "B", "C", "D", "E", "F", "G", "H", "I", "J", "K", "L", "M",
              "N", "O", "P", "Q", "R", "S", "T", "U", "V", "W", "X", "Y", "Z">>

\* r + 'A' - 'a' for a lowercase letter r.
ToUpperChar(c) == UpperSeq[CHOOSE i \in 1..Len(LowerSeq) : LowerSeq[i] = c]

\* unicode.ToLower on one ASCII character.
ToLowerChar(c) ==
    IF c \in Upper THEN LowerSeq[CHOOSE i \in 1..Len(UpperSeq) : UpperSeq[i] = c] ELSE c

ToLower(s) == [i \in 1..Len(s) |-> ToLowerChar(s[i])]

\* The number of leading decimal digits of s.
LeadingDigits(s) ==
    LET nd == {i \in 1..Len(s) : s[i] \notin Digits}
    IN  IF nd = {} THEN Len(s) ELSE (CHOOSE i \in nd : \A j \in nd : i <= j) - 1

\* The number of trailing decimal digits of s.
TrailingDigits(s) ==
    LET nd == {i \in 1..Len(s) : s[i] \notin Digits}
    IN  IF nd = {} THEN Len(s) ELSE Len(s) - (CHOOSE i \in nd : \A j \in nd : j <= i)

\* A conversion that takes digits only, as strconv.ParseUint does.
AtoiOkUnsigned(s) == s # <<>> /\ \A i \in 1..Len(s) : s[i] \in Digits

\* strconv.Atoi succeeds: an optional sign followed by one or more digits
\* (values of the model stay far below the int range).
AtoiOk(s) ==
    LET body == IF s # <<>> /\ s[1] \in {"+", "-"} THEN Tail(s) ELSE s
    IN  body # <<>> /\ \A i \in 1..Len(body) : body[i] \in Digits

\* ------------------------------------------------- golang.org/x/mod/semver

IsIdentChar(c) == c \in Upper \/ c \in Lower \/ c \in Digits \/ c = "-"

ParseIntAt(v, i) ==
    IF v[1] = "0" /\ i # 1
    THEN [ok |-> FALSE, num |-> <<>>, rest |-> v]
    ELSE [ok |-> TRUE, num |-> SubSeq(v, 1, i), rest |-> SubSeq(v, i + 1, Len(v))]

\* semver.parseInt: the leading number of v, without leading zeros.
ParseInt(v) ==
    IF v = <<>> \/ v[1] \notin Digits
    THEN [ok |-> FALSE, num |-> <<>>, rest |-> v]
    ELSE ParseIntAt(v, LeadingDigits(v))

\* strings.Split(s, ".").
RECURSIVE SplitDot(_)
SplitDot(s) ==
    LET c == Cut(s, <<".">>)
    IN  IF c.found THEN <<c.before>> \o SplitDot(c.after) ELSE <<s>>

\* semver.isBadNum: all digits, more than one, with a leading zero.
IsBadNum(s) == LeadingDigits(s) = Len(s) /\ Len(s) > 1 /\ s[1] = "0"

\* Whether every identifier is non-empty and of identifier characters, and
\* (prerelease only) no bad number.
IdentsOk(ids, numeric) ==
    \A k \in 1..Len(ids) :
        /\ ids[k] # <<>>
        /\ \A j \in 1..Len(ids[k]) : IsIdentChar(ids[k][j])
        /\ numeric => ~IsBadNum(ids[k])

\* The text of v up to the Go index i, when good.
ParsedText(v, i, good) ==
    IF good THEN [ok |-> TRUE, text |-> Slice(v, 0, i), rest |-> Slice(v, i, Len(v))]
    ELSE [ok |-> FALSE, text |-> <<>>, rest |-> v]

PrereleaseEnd(v, plus) == IF plus = -1 THEN Len(v) ELSE plus

PrereleaseUpTo(v, i) == ParsedText(v, i, IdentsOk(SplitDot(Slice(v, 1, i)), TRUE))

\* semver.parsePrerelease on a v that starts with '-': the identifiers up
\* to the first '+' are non-empty, of identifier characters, and no bad number.
ParsePrerelease(v) == PrereleaseUpTo(v, PrereleaseEnd(v, Index(v, <<"+">>)))

\* semver.parseBuild on a v that starts with '+': the identifiers up to the
\* end are non-empty and of identifier characters.
ParseBuild(v) == ParsedText(v, Len(v), IdentsOk(SplitDot(Slice(v, 1, Len(v))), FALSE))

NoText(v) == [ok |-> TRUE, text |-> <<>>, rest |-> v]

SemverBad == [ok |-> FALSE, major |-> <<>>, minor |-> <<>>, patch |-> <<>>,
              short |-> <<>>, prerelease |-> <<>>, build |-> <<>>]

SemverOk(major, minor, patch, short, prerelease, build) ==
    [ok |-> TRUE, major |-> major, minor |-> minor, patch |-> patch,
     short |-> short, prerelease |-> prerelease, build |-> build]

\* semver.parse, after the prerelease: the build, then the end of v.
ParseAfterPrerelease(major, minor, patch, pre, bld) ==
    IF pre.ok /\ bld.ok /\ bld.rest = <<>>
    THEN SemverOk(major, minor, patch, <<>>, pre.text, bld.text)
    ELSE SemverBad

BuildOf(pre) ==
    IF pre.ok /\ pre.rest # <<>> /\ pre.rest[1] = "+" THEN ParseBuild(pre.rest)
    ELSE NoText(pre.rest)

ParseWithPrerelease(major, minor, patch, pre) ==
    ParseAfterPrerelease(major, minor, patch, pre, BuildOf(pre))

\* semver.parse, after the patch number.
ParseTail(major, minor, patch, v) ==
    ParseWithPrerelease(major, minor, patch,
        IF v # <<>> /\ v[1] = "-" THEN ParsePrerelease(v) ELSE NoText(v))

\* semver.parse, at the patch number pa.
ParsePatch(major, minor, pa) ==
    IF ~pa.ok THEN SemverBad ELSE ParseTail(major, minor, pa.num, pa.rest)

\* semver.parse, at the minor number mi.
ParseMinor(major, mi) ==
    IF ~mi.ok THEN SemverBad
    ELSE IF mi.rest = <<>>
    THEN SemverOk(major, mi.num, <<"0">>, <<".", "0">>, <<>>, <<>>)
    ELSE IF mi.rest[1] # "." THEN SemverBad
    ELSE ParsePatch(major, mi.num, ParseInt(Tail(mi.rest)))

\* semver.parse, at the major number ma.
ParseMajor(ma) ==
    IF ~ma.ok THEN SemverBad
    ELSE IF ma.rest = <<>>
    THEN SemverOk(ma.num, <<"0">>, <<"0">>, <<".", "0", ".", "0">>, <<>>, <<>>)
    ELSE IF ma.rest[1] # "." THEN SemverBad
    ELSE ParseMinor(ma.num, ParseInt(Tail(ma.rest)))

\* semver.parse: v MAJOR[.MINOR[.PATCH[-PRERELEASE][+BUILD]]].
SemverParse(v) ==
    IF v = <<>> \/ v[1] # "v" THEN SemverBad ELSE ParseMajor(ParseInt(Tail(v)))

BuildIfOk(p) == IF p.ok THEN p.build ELSE <<>>

\* semver.Build: the build suffix of a valid version, else "".
SemverBuild(v) == BuildIfOk(SemverParse(v))

CanonicalOf(v, p) ==
    IF ~p.ok THEN <<>>
    ELSE IF p.build # <<>> THEN SubSeq(v, 1, Len(v) - Len(p.build))
    ELSE IF p.short # <<>> THEN v \o p.short
    ELSE v

\* semver.Canonical: the build metadata dropped, a shorthand completed; ""
\* for an invalid version.
SemverCanonical(v) == CanonicalOf(v, SemverParse(v))

PlusIncompatible == <<"+", "i", "n", "c", "o", "m", "p", "a", "t", "i", "b", "l", "e">>

\* ------------------------------------------------- golang.org/x/mod/module

\* module.unescapeString: "!x" becomes "X"; an upper-case letter, a '!'
\* before anything but a lower-case letter, or a trailing '!' is an error.
\* The characters of the model are ASCII.
RECURSIVE UnescapeFrom(_, _)
UnescapeFrom(s, bang) ==
    IF s = <<>> THEN [ok |-> ~bang, str |-> <<>>]
    ELSE IF bang
    THEN IF s[1] \notin Lower THEN [ok |-> FALSE, str |-> <<>>]
         ELSE LET r == UnescapeFrom(Tail(s), FALSE)
              IN  [ok |-> r.ok, str |-> IF r.ok THEN <<ToUpperChar(s[1])>> \o r.str ELSE <<>>]
    ELSE IF s[1] = "!" THEN UnescapeFrom(Tail(s), TRUE)
    ELSE IF s[1] \in Upper THEN [ok |-> FALSE, str |-> <<>>]
    ELSE LET r == UnescapeFrom(Tail(s), FALSE)
         IN  [ok |-> r.ok, str |-> IF r.ok THEN <<s[1]>> \o r.str ELSE <<>>]

UnescapeString(escaped) == UnescapeFrom(escaped, FALSE)

\* module.modPathOK / module.firstPathOK: the characters of a module path
\* element, and of its first element.
ModPathOK(c) == c \in {"-", ".", "_", "~"} \/ c \in Digits \/ c \in Lower \/ c \in Upper

FirstPathOK(c) == c \in {"-", "."} \/ c \in Digits \/ c \in Lower

BadWindowsNames ==
    {<<"c", "o", "n">>, <<"p", "r", "n">>, <<"a", "u", "x">>, <<"n", "u", "l">>}
    \cup {<<"c", "o", "m", d>> : d \in Digits \ {"0"}}
    \cup {<<"l", "p", "t", d>> : d \in Digits \ {"0"}}

\* The part of a path element before its first dot.
ShortOf(elem, dot) == IF dot >= 0 THEN Slice(elem, 0, dot) ELSE elem

\* A "~digits" tail, which Windows short names use.
TildeTail(short, tilde) ==
    /\ tilde >= 0
    /\ tilde < Len(short) - 1
    /\ \A i \in (tilde + 2)..Len(short) : short[i] \in Digits

ShortOk(short) ==
    /\ ToLower(short) \notin BadWindowsNames
    /\ ~TildeTail(short, LastIndexByte(short, "~"))

\* module.checkElem for a module path element: not empty, not only dots, no
\* leading or trailing dot, only module path characters, no reserved Windows
\* device name before its first dot, no "~digits" tail before its first dot.
CheckElem(elem) ==
    /\ elem # <<>>
    /\ Count(elem, ".") # Len(elem)
    /\ elem[1] # "."
    /\ elem[Len(elem)] # "."
    /\ \A i \in 1..Len(elem) : ModPathOK(elem[i])
    /\ ShortOk(ShortOf(elem, Index(elem, <<".">>)))

GopkgIn == <<"g", "o", "p", "k", "g", ".", "i", "n", "/">>

Unstable == <<"-", "u", "n", "s", "t", "a", "b", "l", "e">>

\* splitGopkgIn with i the Go index where the trailing digits start and
\* pm the candidate path major path[i-2:].
SplitGopkgInAt(path, i, pm) ==
    IF i <= 1 \/ path[i] # "v" \/ path[i - 1] # "."
    THEN [prefix |-> path, pathMajor |-> <<>>, ok |-> FALSE]
    ELSE IF Len(pm) <= 2
            \/ (pm[3] = "0" /\ pm # <<".", "v", "0">>
                /\ pm # <<".", "v", "0">> \o Unstable)
    THEN [prefix |-> path, pathMajor |-> <<>>, ok |-> FALSE]
    ELSE [prefix |-> Slice(path, 0, i - 2), pathMajor |-> pm, ok |-> TRUE]

SplitGopkgInFrom(path, i) == SplitGopkgInAt(path, i, Slice(path, i - 2, Len(path)))

SplitGopkgInEnd(path, e) == SplitGopkgInFrom(path, e - TrailingDigits(SubSeq(path, 1, e)))

\* module.splitGopkgIn: gopkg.in paths end in .vN (or .vN-unstable).
SplitGopkgIn(path) ==
    SplitGopkgInEnd(path,
        IF HasSuffix(path, Unstable) THEN Len(path) - Len(Unstable) ELSE Len(path))

\* The number of trailing characters of s that are digits or dots.
TrailingDigitsDots(s) ==
    LET nd == {i \in 1..Len(s) : s[i] \notin Digits /\ s[i] # "."}
    IN  IF nd = {} THEN Len(s) ELSE Len(s) - (CHOOSE i \in nd : \A j \in nd : j <= i)

\* SplitPathVersion with i the Go index where the trailing digits and dots
\* start and pm the candidate path major path[i-2:].
SplitPathVersionAt(path, i, pm) ==
    IF i <= 1 \/ i = Len(path) \/ path[i] # "v" \/ path[i - 1] # "/"
    THEN [prefix |-> path, pathMajor |-> <<>>, ok |-> TRUE]
    ELSE IF \/ \E k \in (i + 1)..Len(path) : path[k] = "."
            \/ Len(pm) <= 2
            \/ pm[3] = "0"
            \/ pm = <<"/", "v", "1">>
    THEN [prefix |-> path, pathMajor |-> <<>>, ok |-> FALSE]
    ELSE [prefix |-> Slice(path, 0, i - 2), pathMajor |-> pm, ok |-> TRUE]

SplitPathVersionFrom(path, i) == SplitPathVersionAt(path, i, Slice(path, i - 2, Len(path)))

\* module.SplitPathVersion: a trailing /vN (N >= 2, no leading zero, no dot)
\* is the path major; /v0, /v1, /v02, /v2.1 are invalid.
SplitPathVersion(path) ==
    IF HasPrefix(path, GopkgIn) THEN SplitGopkgIn(path)
    ELSE SplitPathVersionFrom(path, Len(path) - TrailingDigitsDots(path))

ElemsOk(elems) ==
    /\ \A k \in 1..Len(elems) : CheckElem(elems[k])
    /\ Count(elems[1], ".") > 0
    /\ \A i \in 1..Len(elems[1]) : FirstPathOK(elems[1][i])

\* module.CheckPath: every element passes checkElem (so no leading, trailing
\* or double slash), the first element has a dot, no leading dash and only
\* first-element characters, and the path major is well formed.
CheckPath(path) ==
    /\ path # <<>>
    /\ path[1] # "-"
    /\ ElemsOk(SplitSlash(path))
    /\ SplitPathVersion(path).ok

UnescapedOk(u) ==
    IF u.ok /\ CheckPath(u.str) THEN [ok |-> TRUE, path |-> u.str]
    ELSE [ok |-> FALSE, path |-> <<>>]

\* module.UnescapePath: the unescaped path, which must pass CheckPath.
UnescapePath(escaped) == UnescapedOk(UnescapeString(escaped))

\* \d{14}: fourteen decimal digits.
IsTimestamp(s) == Len(s) = 14 /\ \A i \in 1..14 : s[i] \in Digits

\* The head of a pseudo-version (what precedes its timestamp) is vX.0.0-,
\* or vX.Y.Z-[...\.]0. whose part before "0." is g.
PseudoHeadOk(head, base, g, p) ==
    \/ head = base /\ p.minor = <<"0">> /\ p.patch = <<"0">>
    \/ /\ HasSuffix(head, <<"0", ".">>)
       /\ \/ g = base
          \/ HasPrefix(g, base) /\ Len(g) > Len(base) /\ g[Len(g)] = "."

PseudoHead(head, p) ==
    PseudoHeadOk(head,
                 <<"v">> \o p.major \o <<".">> \o p.minor \o <<".">> \o p.patch \o <<"-">>,
                 SubSeq(head, 1, Len(head) - 2), p)

\* core is the version without its build, dash the Go index of its last '-'.
PseudoCoreOk(core, dash, p) ==
    /\ dash + 1 < Len(core)
    /\ \A i \in (dash + 2)..Len(core) : core[i] \in Digits \cup Lower \cup Upper
    /\ dash - 14 >= 0
    /\ IsTimestamp(Slice(core, dash - 14, dash))
    /\ PseudoHead(Slice(core, 0, dash - 14), p)

PseudoCore(core, p) == PseudoCoreOk(core, LastIndexByte(core, "-"), p)

PseudoParsed(v, p) == p.ok /\ PseudoCore(SubSeq(v, 1, Len(v) - Len(p.build)), p)

\* module.IsPseudoVersion: two dashes or more, valid semver, and a match of
\*   ^v[0-9]+\.(0\.0-|\d+\.\d+-([^+]*\.)?0\.)\d{14}-[A-Za-z0-9]+(\+...)?$
\* For a valid version the match is decided on the version without its
\* build: <head><14 digits>-<rev>, the head being vX.0.0- or vX.Y.Z-[...\.]0.
IsPseudoVersion(v) == Count(v, "-") >= 2 /\ PseudoParsed(v, SemverParse(v))

RevOf(core) == Slice(core, LastIndexByte(core, "-") + 1, Len(core))

\* module.PseudoVersionRev: the revision after the last dash of a
\* pseudo-version without its build, "" for another version.
PseudoVersionRev(v) ==
    IF IsPseudoVersion(v) THEN RevOf(TrimSuffix(v, SemverBuild(v))) ELSE <<>>

\* ------------------------------------------------------------ Go's time

DigitVal ==
    [c \in Digits |->
        CASE c = "0" -> 0 [] c = "1" -> 1 [] c = "2" -> 2 [] c = "3" -> 3
          [] c = "4" -> 4 [] c = "5" -> 5 [] c = "6" -> 6 [] c = "7" -> 7
          [] c = "8" -> 8 [] c = "9" -> 9]

\* The number written by the two digits of s at the 1-based index i.
Num2(s, i) == DigitVal[s[i]] * 10 + DigitVal[s[i + 1]]

IsLeap(y) == y % 4 = 0 /\ (y % 100 # 0 \/ y % 400 = 0)

\* The number of days of month m of year y.
DaysIn(y, m) ==
    IF m = 2 THEN (IF IsLeap(y) THEN 29 ELSE 28)
    ELSE IF m \in {4, 6, 9, 11} THEN 30 ELSE 31

\* The fields of a parsed time are in range, as time.Parse requires.
TimeInRange(y, m, d, h, mi, sec) ==
    /\ m \in 1..12
    /\ d >= 1
    /\ d <= DaysIn(y, m)
    /\ h < 24
    /\ mi < 60
    /\ sec < 60

TimeParsed(y, m, d, h, mi, sec) ==
    IF TimeInRange(y, m, d, h, mi, sec)
    THEN [ok |-> TRUE, t |-> <<y, m, d, h, mi, sec>>]
    ELSE [ok |-> FALSE, t |-> <<1, 1, 1, 0, 0, 0>>]

\* time.Parse("20060102150405", s) of fourteen digits: the UTC time, or an
\* error and time.Time{} when a field is out of range.
ParseTimestamp(s) ==
    TimeParsed(Num2(s, 1) * 100 + Num2(s, 3), Num2(s, 5), Num2(s, 7),
               Num2(s, 9), Num2(s, 11), Num2(s, 13))

\* The date of day number z, days counted from March 1 of year 0.
CivilOfEra(era, doe, yoe) ==
    LET doy == doe - (365 * yoe + yoe \div 4 - yoe \div 100)
        mp  == (5 * doy + 2) \div 153
        m   == IF mp < 10 THEN mp + 3 ELSE mp - 9
    IN  <<yoe + era * 400 + (IF m <= 2 THEN 1 ELSE 0), m, doy - (153 * mp + 2) \div 5 + 1>>

CivilOfDoe(era, doe) ==
    CivilOfEra(era, doe,
               (doe - doe \div 1460 + doe \div 36524 - doe \div 146096) \div 365)

CivilOfDays(z) == CivilOfDoe(z \div 146097, z % 146097)

\* time.Unix(tm, 0).In(time.UTC) for tm >= 0: year, month, day, hour,
\* minute, second.
UnixUTC(tm) ==
    CivilOfDays(tm \div 86400 + 719468)
        \o <<(tm % 86400) \div 3600, (tm % 3600) \div 60, tm % 60>>

\* parsePseudoVersion: with the revision and its '-' cut off, the timestamp
\* is what follows the last '-' or the last '.', whichever comes later.
TimestampAfter(head, i, k) == Slice(head, (IF k > i THEN k ELSE i) + 1, Len(head))

TimestampOf(head) ==
    TimestampAfter(head, LastIndexByte(head, "-"), LastIndexByte(head, "."))

TimestampIn(core) == TimestampOf(Slice(core, 0, LastIndexByte(core, "-")))

\* module.PseudoVersionTime: the time the pseudo-version carries; an error
\* and time.Time{} for another version and for a timestamp that
\* time.Parse rejects.
PseudoVersionTime(v) ==
    IF IsPseudoVersion(v)
    THEN ParseTimestamp(TimestampIn(TrimSuffix(v, SemverBuild(v))))
    ELSE [ok |-> FALSE, t |-> <<1, 1, 1, 0, 0, 0>>]

\* ------------------------------------------------------ the request parser

SumdbPrefix == <<"s", "u", "m", "d", "b", "/">>

AtV == <<"/", "@", "v", "/">>

AtLatest == <<"/", "@", "l", "a", "t", "e", "s", "t">>

Latest == <<"l", "a", "t", "e", "s", "t">>

List == <<"l", "i", "s", "t">>

ExtInfo == <<".", "i", "n", "f", "o">>

ExtMod == <<".", "m", "o", "d">>

ExtZip == <<".", "z", "i", "p">>

\* parseRequest: 404 for sumdb/, the path cut at "/@v/", else the path
\* without "/@latest" with the property "latest", else 500.
ParseRequest(urlPath) ==
    LET c == Cut(urlPath, AtV)
        l == CutSuffix(urlPath, AtLatest)
    IN  IF HasPrefix(urlPath, SumdbPrefix)
        THEN [ok |-> FALSE, code |-> 404, escapedModulePath |-> <<>>, prop |-> <<>>]
        ELSE IF c.found
        THEN [ok |-> TRUE, code |-> 0, escapedModulePath |-> c.before, prop |-> c.after]
        ELSE IF l.found
        THEN [ok |-> TRUE, code |-> 0, escapedModulePath |-> l.before, prop |-> Latest]
        ELSE [ok |-> FALSE, code |-> 500, escapedModulePath |-> <<>>, prop |-> <<>>]

SplitComponents(modulePath, components, last) ==
    IF \E k \in 1..Len(components) : components[k] = <<>> \/ components[k][1] = "."
    THEN [path |-> <<>>, major |-> <<>>, ok |-> FALSE]
    ELSE IF Len(components) < 2
    THEN [path |-> modulePath, major |-> <<>>, ok |-> TRUE]
    ELSE IF last[1] # "v"
    THEN [path |-> modulePath, major |-> <<>>, ok |-> TRUE]
    ELSE IF ~AtoiOk(Tail(last))
    THEN [path |-> modulePath, major |-> <<>>, ok |-> TRUE]
    ELSE [path |-> JoinSlash(SubSeq(components, 1, Len(components) - 1)),
          major |-> last, ok |-> TRUE]

SplitLast(modulePath, components) ==
    SplitComponents(modulePath, components, components[Len(components)])

\* splitModuleMajorVer: no empty component and none starting with '.'; the
\* last of two or more components is the major tag when it is 'v' followed
\* by what strconv.Atoi accepts.
SplitModuleMajorVer(modulePath) == SplitLast(modulePath, SplitSlash(modulePath))

\* checkModulePathVer for a gopkg.in/ path: idx is the Go index of its last dot.
CheckGopkgIn(modulePath, ver, incompat, idx) ==
    IF incompat
    THEN [path |-> <<>>, major |-> <<>>, incompat |-> incompat, ok |-> FALSE]
    ELSE IF idx # -1 /\ HasPrefix(ver, Slice(modulePath, idx + 1, Len(modulePath)))
    THEN [path |-> modulePath, major |-> <<>>, incompat |-> FALSE, ok |-> TRUE]
    ELSE [path |-> <<>>, major |-> <<>>, incompat |-> incompat, ok |-> FALSE]

\* checkModulePathVer for another path: sp is the result of the split, which
\* has been assigned to the named results path, major and ok before either
\* bare return.
CheckSplit(ver, incompat, sp) ==
    IF ~sp.ok
    THEN [path |-> sp.path, major |-> sp.major, incompat |-> incompat, ok |-> FALSE]
    ELSE IF /\ sp.major = <<>>
            /\ ~HasPrefix(ver, <<"v", "0", ".">>)
            /\ ~HasPrefix(ver, <<"v", "1", ".">>)
            /\ ~incompat
    THEN [path |-> sp.path, major |-> sp.major, incompat |-> incompat, ok |-> sp.ok]
    ELSE [path |-> sp.path, major |-> sp.major, incompat |-> incompat, ok |-> TRUE]

CheckWithIncompat(modulePath, ver, incompat) ==
    IF HasPrefix(modulePath, GopkgIn)
    THEN CheckGopkgIn(modulePath, ver, incompat, LastIndexByte(modulePath, "."))
    ELSE CheckSplit(ver, incompat, SplitModuleMajorVer(modulePath))

\* checkModulePathVer.  The named results start as "", "", incompat, false;
\* a bare return gives them back as they stand.
CheckModulePathVer(modulePath, ver) ==
    CheckWithIncompat(modulePath, ver, SemverBuild(ver) = PlusIncompatible)


\* ------------------------------------------------------------ the universe

Host == <<"x", ".", "y">>

ModA == Host \o <<"/", "a">>

ModAB == ModA \o <<"/", "b">>

V100 == <<"v", "1", ".", "0", ".", "0">>

V200 == <<"v", "2", ".", "0", ".", "0">>

GopkgA1 == GopkgIn \o <<"a", ".", "v", "1">>

\* The request paths below the prefix that clients send.
ReqPaths ==
    { ModA \o AtV \o V100 \o ExtInfo,
      ModA \o AtV \o V100 \o ExtZip,
      ModAB \o AtV \o V100 \o ExtMod,
      GopkgA1 \o AtV \o V200 \o ExtInfo,
      Host \o <<"/", "A">> \o AtV \o V100 \o ExtInfo,
      ModA \o AtLatest,
      ModA \o AtV \o List,
      ModA \o AtV \o V100 \o <<".", "t", "x", "t">>,
      SumdbPrefix \o <<"x">> }

UpstreamProxy == <<"h", "t", "t", "p", "s", ":", "/", "/", "p", "r", "o", "x", "y", ".",
                   "g", "o", "l", "a", "n", "g", ".", "o", "r", "g">>

\* ProxyServer.Prefix once init has run: it ends with '/'.
Prefix == <<"/", "p", "/">>

\* The URL paths of the requests that the mux routes to monitorModFetch.
IncomingPaths == {Prefix \o urlPath : urlPath \in ReqPaths}

\* http.StripPrefix: the handler gets the URL path with the prefix cut off.
StripPrefix(prefix, urlPath) == TrimPrefix(urlPath, prefix)

\* The path the handler sees for each incoming path, computed once.
Stripped == [full \in IncomingPaths |-> StripPrefix(Prefix, full)]

DotGit == ".git"

\* The URL of the repository, as the upstream proxy and the meta tags give it.
RepoURL == "https://x.y/r.git"

\* What the upstream proxy may answer to <escaped path>/@latest: an error,
\* a RevInfo without Origin, or one with an Origin.
NoOrigin == [VCS |-> "", URL |-> "", Subdir |-> <<>>]

UpstreamAnswers ==
    { [err |-> TRUE,  hasOrigin |-> FALSE, Origin |-> NoOrigin],
      [err |-> FALSE, hasOrigin |-> FALSE, Origin |-> NoOrigin],
      [err |-> FALSE, hasOrigin |-> TRUE,
       Origin |-> [VCS |-> "git", URL |-> RepoURL, Subdir |-> <<>>]],
      [err |-> FALSE, hasOrigin |-> TRUE,
       Origin |-> [VCS |-> "git", URL |-> RepoURL, Subdir |-> <<"b">>]],
      [err |-> FALSE, hasOrigin |-> TRUE,
       Origin |-> [VCS |-> "hg", URL |-> "https://x.y/r.hg", Subdir |-> <<>>]] }

\* The go-import lists a meta-tag page may carry.
ImportLists ==
    { <<>>,
      << [Prefix |-> Host, VCS |-> "hg", RepoRoot |-> "https://x.y/r.hg"] >>,
      << [Prefix |-> Host, VCS |-> "hg", RepoRoot |-> "https://x.y/r.hg"],
         [Prefix |-> Host, VCS |-> "git", RepoRoot |-> RepoURL] >> }

\* parseRequest of each request path, computed once.
Parsed == [urlPath \in ReqPaths |-> ParseRequest(urlPath)]

\* module.UnescapePath of each escaped module path of a request, computed once.
Unescaped ==
    [escapedModulePath \in {Parsed[urlPath].escapedModulePath : urlPath \in ReqPaths}
        |-> UnescapePath(escapedModulePath)]

\* path.Ext(prop) of each request path, computed once.
Ext == [urlPath \in ReqPaths |-> PathExt(Parsed[urlPath].prop)]

\* The prefixes of a path cut at '/' boundaries, the path included.
PrefixesOf(path) ==
    {path} \cup {SubSeq(path, 1, i - 1) : i \in {j \in 1..Len(path) : path[j] = "/"}}

\* ---------------------------------------------------------------- the state

VARIABLES
    pendingMod,        \* ProxyServer.pendingMod: the set of pending request keys
    pendingGit,        \* ProxyServer.pendingGit: repository root -> remote URL
    gitClones,         \* ProxyServer.gitClones: the buffered channel of roots
    gitCloneWorkers,   \* ProxyServer.gitCloneWorkers: the permit counter
    workers,           \* the gitCloneWorker goroutines (a bag of records)
    tasks,             \* the refreshModPathVer goroutines (a bag of records)
    git,               \* the file system: root -> state of <root>/.git
    vcs,               \* the file system: root -> target of <root>/.vcs
    panicked,          \* a goroutine ran log.Panicf
    nReq,              \* requests received so far
    lastResp,          \* the response to the last request
    nSubmit,           \* history: cacheModGit calls that stored their root
    call,              \* the last direct call of a resolver function, with its result
    serve              \* the serveModGit call of the cached-only request at hand

vars == <<pendingMod, pendingGit, gitClones, gitCloneWorkers, workers, tasks,
          git, vcs, panicked, nReq, lastResp, nSubmit, call, serve>>

NoResp == [path |-> <<>>, code |-> 0, location |-> <<>>, existing |-> FALSE,
           queried |-> FALSE]

\* time.Time{}: January 1 of year 1, 00:00:00 UTC, as year, month, day,
\* hour, minute, second.
ZeroTime == <<1, 1, 1, 0, 0, 0>>

\* No commit time has been read.
NoTime == -1

\* No cached-only request is being served from a repository.
NoServe ==
    [pc |-> "idle", ext |-> <<>>, subPath |-> <<>>, major |-> <<>>, ver |-> <<>>,
     incompat |-> FALSE, pseudoVer |-> FALSE, timestamp |-> ZeroTime,
     refspec |-> <<>>, tm |-> NoTime, treeish |-> <<>>, cmds |-> <<>>,
     files |-> {}, hasLicense |-> FALSE, archive |-> "none",
     started |-> 0, closed |-> 0, waited |-> 0,
     err |-> "", code |-> 0, kind |-> "", data |-> <<>>, time |-> ZeroTime]

\* No resolver function has been called directly.
NoCall == [fn |-> "", modulePath |-> <<>>, ver |-> <<>>, out |-> <<>>]

\* ProxyServer.init, before the first request: the permit counter and the
\* channel capacity are the CPU count; the maps and the working directory
\* are empty.
Init ==
    /\ pendingMod = {}
    /\ pendingGit = << >>
    /\ gitClones = << >>
    /\ gitCloneWorkers = NumCPU
    /\ workers = EmptyBag
    /\ tasks = EmptyBag
    /\ git = << >>
    /\ vcs = << >>
    /\ panicked = FALSE
    /\ nReq = 0
    /\ lastResp = NoResp
    /\ nSubmit = 0
    /\ call = NoCall
    /\ serve = NoServe

\* log.Panicf in any goroutine ends the process.
Running == ~panicked

\* A map without key k.
Without(f, k) == [x \in DOMAIN f \ {k} |-> f[x]]

\* A map with key k set to v.
With(f, k, v) == [x \in DOMAIN f \cup {k} |-> IF x = k THEN v ELSE f[x]]

\* ---------------------------------------------------- the pass-through monitor

\* redirectToUpstream: the request URL with scheme and host replaced.  The
\* handler sees the path below the prefix (http.StripPrefix); URL.String
\* puts a '/' before a path that does not start with one.
RedirectLocationWithPrefix(urlPath) == UpstreamProxy \o Prefix \o urlPath

RedirectLocation(urlPath) ==
    UpstreamProxy \o (IF urlPath # <<>> /\ urlPath[1] = "/" THEN urlPath ELSE <<"/">> \o urlPath)

\* r.URL.Path[:len(r.URL.Path)-len(ext)]
DropExt(str, ext) == Slice(str, 0, Len(str) - Len(ext))

\* The key of monitorModFetch: the URL path without its extension.
RequestKey(urlPath) == DropExt(urlPath, Ext[urlPath])

\* The key r.URL.Path[:len(r.URL.Path)-len(ext)] of each request path,
\* computed once.
Keys == [urlPath \in ReqPaths |-> RequestKey(urlPath)]

\* The version prop[:len(prop)-len(ext)] of each request path, computed once.
Vers == [urlPath \in ReqPaths |-> DropExt(Parsed[urlPath].prop, Ext[urlPath])]

\* The redirect URL of each request path, computed once.
Locations == [urlPath \in ReqPaths |-> RedirectLocation(urlPath)]

\* A LoadOrStore that never finds the key: the handler without deduplication.
PendingModNeverLoaded(key) == FALSE

\* pendingMod.LoadOrStore(key): whether the key was already there.
PendingModLoaded(key) == key \in pendingMod

\* A processEsModPathVer that also fails for a key that is already pending.
ProcessErrWhenPending(key, escapedModulePath) ==
    ~Unescaped[escapedModulePath].ok \/ key \in pendingMod

\* processEsModPathVer's result: the error of module.UnescapePath.
ProcessErr(key, escapedModulePath) == ~Unescaped[escapedModulePath].ok

NewTask(key, escapedModulePath, modulePath, ver) ==
    [pc |-> "refresh", key |-> key, escapedModulePath |-> escapedModulePath,
     modulePath |-> modulePath, ver |-> ver, subPath |-> <<>>, remote |-> "",
     err |-> FALSE]

\* A handler that hands the work over only while the clone queue has room.
GoRefreshWhenRoom(key, escapedModulePath, modulePath, ver) ==
    /\ Len(gitClones) < NumCPU
    /\ tasks' = tasks (+) SetToBag({NewTask(key, escapedModulePath, modulePath, ver)})

\* go p.refreshModPathVer(...): a new goroutine; the caller goes on.
GoRefreshModPathVer(key, escapedModulePath, modulePath, ver) ==
    tasks' = tasks (+) SetToBag({NewTask(key, escapedModulePath, modulePath, ver)})

\* processEsModPathVer: unescape, LoadOrStore the key, start the task.
ProcessEsModPathVer(key, escapedModulePath, ver) ==
    IF ProcessErr(key, escapedModulePath) \/ PendingModLoaded(key)
    THEN UNCHANGED <<pendingMod, tasks>>
    ELSE /\ pendingMod' = pendingMod \cup {key}
         /\ GoRefreshModPathVer(key, escapedModulePath,
                                Unescaped[escapedModulePath].path, ver)

IsArtifactExt(ext) == ext \in {ExtInfo, ExtMod, ExtZip}

\* What the client of a request gets, with processEsModPathVer's `existing`.
Response(urlPath, code, existing) ==
    [path |-> urlPath, code |-> code,
     location |-> IF code = 301 THEN Locations[urlPath] ELSE <<>>,
     existing |-> existing, queried |-> FALSE]

\* monitorModFetch's answer to an .info, .mod or .zip request.
MonitorArtifact(urlPath, key, escapedModulePath) ==
    IF ProcessErr(key, escapedModulePath) THEN Response(urlPath, 500, FALSE)
    ELSE Response(urlPath, 301, PendingModLoaded(key))

\* A handler for which no property is redirect-only.
RedirectOnlyNever(ext, prop) == FALSE

\* case "": prop == "latest" || prop == "list"
RedirectOnly(ext, prop) == ext = <<>> /\ (prop = Latest \/ prop = List)

\* monitorModFetch's answer to a request that parseRequest accepted.
MonitorSwitch(urlPath, pr, ext) ==
    IF IsArtifactExt(ext)
    THEN MonitorArtifact(urlPath, Keys[urlPath], pr.escapedModulePath)
    ELSE IF RedirectOnly(ext, pr.prop)
    THEN Response(urlPath, 301, FALSE)
    ELSE Response(urlPath, 500, FALSE)

MonitorParsed(urlPath, pr) ==
    IF ~pr.ok THEN Response(urlPath, pr.code, FALSE)
    ELSE MonitorSwitch(urlPath, pr, Ext[urlPath])

\* The status and Location monitorModFetch answers with.
MonitorResponse(urlPath) == MonitorParsed(urlPath, Parsed[urlPath])

MonitorProcess(urlPath, pr, ext) ==
    IF pr.ok /\ IsArtifactExt(ext)
    THEN ProcessEsModPathVer(Keys[urlPath], pr.escapedModulePath, Vers[urlPath])
    ELSE UNCHANGED <<pendingMod, tasks>>

MonitorStart(urlPath, pr) == MonitorProcess(urlPath, pr, Ext[urlPath])

\* monitorModFetch, the whole handler: parse, start the background task for
\* .info/.mod/.zip, answer.
MonitorModFetch(urlPath) ==
    /\ nReq < MaxReq
    /\ Running
    /\ nReq' = nReq + 1
    /\ lastResp' = MonitorResponse(urlPath)
    /\ MonitorStart(urlPath, Parsed[urlPath])
    /\ UNCHANGED <<call, serve, pendingGit, gitClones, gitCloneWorkers, workers, git, vcs,
                   panicked, nSubmit>>

\* ------------------------------------------------------ the resolver tasks

\* The request asks for an .info, .mod or .zip.
IsArtifactPath(urlPath) ==
    /\ urlPath \in ReqPaths
    /\ Parsed[urlPath].ok
    /\ IsArtifactExt(PathExt(Parsed[urlPath].prop))

\* The version a request names: prop[:len(prop)-len(ext)].
VersionOf(urlPath) == Vers[urlPath]

\* The versions and the module paths the resolver tasks are started with.
Versions == {VersionOf(urlPath) : urlPath \in {u \in ReqPaths : IsArtifactPath(u)}}

ModulePaths ==
    {Unescaped[e].path : e \in {x \in DOMAIN Unescaped : Unescaped[x].ok}}

\* checkModulePathVer of each of them, computed once.
Checked ==
    [modulePath \in ModulePaths, ver \in Versions |-> CheckModulePathVer(modulePath, ver)]

\* semver.Canonical, module.IsPseudoVersion and module.PseudoVersionRev of
\* each version, computed once.
Canonical == [ver \in Versions |-> SemverCanonical(ver)]

PseudoVer == [ver \in Versions |-> IsPseudoVersion(Canonical[ver])]

PseudoRev == [ver \in Versions |-> PseudoVersionRev(Canonical[ver])]

\* checkModVcsLocal's loop: the longest prefix of modulePath, cut at '/',
\* whose .vcs link can be read.
RECURSIVE CheckModVcsLocalFrom(_, _, _)
CheckModVcsLocalFrom(modulePath, sep, subPath) ==
    IF Slice(modulePath, 0, sep) \in DOMAIN vcs
    THEN [found |-> TRUE, parentPath |-> Slice(modulePath, 0, sep), subPath |-> subPath,
          target |-> vcs[Slice(modulePath, 0, sep)]]
    ELSE IF LastIndexByte(Slice(modulePath, 0, sep), "/") = -1
    THEN [found |-> FALSE, parentPath |-> <<>>, subPath |-> <<>>, target |-> ""]
    ELSE CheckModVcsLocalFrom(modulePath, LastIndexByte(Slice(modulePath, 0, sep), "/"),
             Slice(modulePath, LastIndexByte(Slice(modulePath, 0, sep), "/") + 1,
                   Len(modulePath)))

CheckModVcsLocal(modulePath) == CheckModVcsLocalFrom(modulePath, Len(modulePath), <<>>)

\* searchModuleVcsDirect: the longest prefix of modulePath whose go-get page
\* can be fetched; okPaths are the paths whose page the network serves.
RECURSIVE SearchModuleVcsDirect(_, _)
SearchModuleVcsDirect(modulePath, okPaths) ==
    IF modulePath \in okPaths THEN [found |-> TRUE, prefix |-> modulePath]
    ELSE IF LastIndexByte(modulePath, "/") = -1 THEN [found |-> FALSE, prefix |-> <<>>]
    ELSE SearchModuleVcsDirect(Slice(modulePath, 0, LastIndexByte(modulePath, "/")), okPaths)

\* The index of the first go-import with VCS "git", 0 when there is none.
FirstGit(imports) ==
    IF \E i \in 1..Len(imports) : imports[i].VCS = "git"
    THEN CHOOSE i \in 1..Len(imports) :
             /\ imports[i].VCS = "git"
             /\ \A j \in 1..(i - 1) : imports[j].VCS # "git"
    ELSE 0

\* cacheModGit's refspec for a version: the revision of a pseudo-version,
\* else the canonical version, below the sub-path when there is one.
Refspec(ver, subPath) ==
    IF PseudoVer[ver] THEN PseudoRev[ver]
    ELSE IF subPath # <<>> THEN subPath \o <<"/">> \o Canonical[ver]
    ELSE Canonical[ver]

\* The condition of the retry_refspec jump.
RetryRefspec(refspec, pseudoVer, subPath) ==
    ~pseudoVer /\ subPath = <<>> /\ HasPrefix(refspec, <<"v">>)

\* The error of the git log loop: found[i] is whether the i-th git log
\* finds its refspec.
RECURSIVE GitLogErr(_, _, _, _, _)
GitLogErr(refspec, pseudoVer, subPath, found, i) ==
    IF found[i] THEN FALSE
    ELSE IF RetryRefspec(refspec, pseudoVer, subPath)
    THEN GitLogErr(TrimPrefix(refspec, <<"v">>), pseudoVer, subPath, found, i + 1)
    ELSE TRUE

\* A refreshModPathVer without its deferred delete.
DeferredDeleteNothing(key) == pendingMod

\* defer p.pendingMod.Delete(key)
DeferredDelete(key) == pendingMod \ {key}

\* refreshModPathVer returns: the deferred delete runs, the goroutine ends.
TaskReturn(t) ==
    /\ pendingMod' = DeferredDelete(t.key)
    /\ tasks' = tasks (-) SetToBag({t})

\* The task goes on as u.
TaskGoto(t, u) ==
    /\ tasks' = (tasks (-) SetToBag({t})) (+) SetToBag({u})
    /\ UNCHANGED pendingMod

\* A cacheModGit that never asks the local repository.
EntryPcSkipsLog(remote) == "store"

\* if remote == "": where cacheModGit begins.
EntryPc(remote) == IF remote = "" THEN "gitlog" ELSE "store"

\* cacheModGit is entered: with no remote the local repository is asked for
\* the version first.
CacheModGitEntry(t, modulePath, subPath, remote) ==
    TaskGoto(t, [t EXCEPT !.pc = EntryPc(remote),
                          !.modulePath = modulePath, !.subPath = subPath,
                          !.remote = remote])

RefreshLookup(t, modulePath, lo) ==
    IF lo.found
    THEN IF lo.target = DotGit
         THEN CacheModGitEntry(t, lo.parentPath, lo.subPath, "") /\ UNCHANGED panicked
         ELSE panicked' = TRUE /\ UNCHANGED <<pendingMod, tasks>>
    ELSE /\ TaskGoto(t, [t EXCEPT !.pc = "resolve", !.modulePath = modulePath])
         /\ UNCHANGED panicked

RefreshChecked(t, cm) ==
    IF ~cm.ok THEN TaskReturn(t) /\ UNCHANGED panicked
    ELSE RefreshLookup(t, cm.path, CheckModVcsLocal(cm.path))

\* refreshModPathVer up to the upstream request: the module path is
\* checked and looked up in the working directory.
RefreshLocal(t) ==
    /\ Running
    /\ t.pc = "refresh"
    /\ RefreshChecked(t, Checked[t.modulePath, t.ver])
    /\ UNCHANGED <<call, serve, pendingGit, gitClones, gitCloneWorkers, workers, git, vcs,
                   nReq, lastResp, nSubmit>>

\* The upstream proxy named the origin.
FromOrigin(t, origin) ==
    IF origin.VCS = "git"
    THEN CacheModGitEntry(t, TrimRight(TrimSuffix(t.modulePath, origin.Subdir), "/"),
                          origin.Subdir, origin.URL)
    ELSE TaskReturn(t)

FromImports(t, prefix, imports, g) ==
    IF g # 0
    THEN CacheModGitEntry(t, prefix, TrimLeft(TrimPrefix(t.modulePath, prefix), "/"),
                          imports[g].RepoRoot)
    ELSE TaskReturn(t)

\* The go-import tags are searched.
FromDirect(t, sd, imports) ==
    IF ~sd.found THEN TaskReturn(t)
    ELSE FromImports(t, sd.prefix, imports, FirstGit(imports))

\* refreshModPathVer from the upstream request on: the answer of the
\* upstream proxy, else the go-import tags, name the repository.
RefreshRemote(t) ==
    /\ Running
    /\ t.pc = "resolve"
    /\ \E ans \in UpstreamAnswers :
           IF ans.err THEN TaskReturn(t)
           ELSE IF ans.hasOrigin THEN FromOrigin(t, ans.Origin)
           ELSE \E okPaths \in SUBSET PrefixesOf(t.modulePath), imports \in ImportLists :
                    FromDirect(t, SearchModuleVcsDirect(t.modulePath, okPaths), imports)
    /\ UNCHANGED <<call, serve, pendingGit, gitClones, gitCloneWorkers, workers, git, vcs, panicked,
                   nReq, lastResp, nSubmit>>

\* cacheModGit with no remote: git log, once more without the 'v'; the
\* task goes on to refresh the repository only when the log failed.
CacheModGitLocal(t) ==
    /\ Running
    /\ t.pc = "gitlog"
    /\ \E found \in [1..2 -> BOOLEAN] :
           IF GitLogErr(Refspec(t.ver, t.subPath),
                        PseudoVer[t.ver], t.subPath, found, 1)
           THEN TaskGoto(t, [t EXCEPT !.pc = "store", !.err = TRUE])
           ELSE TaskReturn(t)
    /\ UNCHANGED <<call, serve, pendingGit, gitClones, gitCloneWorkers, workers, git, vcs, panicked,
                   nReq, lastResp, nSubmit>>

\* A LoadOrStore that never finds the root: cacheModGit without its guard.
PendingGitNeverLoaded(modulePath) == FALSE

\* pendingGit.LoadOrStore(modulePath, remote): whether the root was there.
PendingGitLoaded(modulePath) == modulePath \in DOMAIN pendingGit

\* cacheModGit: the root is stored unless a clone or update of it is pending.
CacheModGitStore(t) ==
    /\ Running
    /\ t.pc = "store"
    /\ IF PendingGitLoaded(t.modulePath)
       THEN /\ TaskReturn(t)
            /\ UNCHANGED <<pendingGit, nSubmit>>
       ELSE /\ pendingGit' = With(pendingGit, t.modulePath, t.remote)
            /\ nSubmit' = nSubmit + 1
            /\ TaskGoto(t, [t EXCEPT !.pc = "permit"])
    /\ UNCHANGED <<call, serve, gitClones, gitCloneWorkers, workers, git, vcs, panicked,
                   nReq, lastResp>>

\* A cacheModGit that starts a worker whatever the counter says.
PermitAlways(newValue) == TRUE

\* gitCloneWorkers.Add(-1) < 0 is false: a permit was taken.
PermitGranted(newValue) == ~(newValue < 0)

NewWorker == [pc |-> "recv", modulePath |-> <<>>, remote |-> "", tmp |-> "none"]

\* cacheModGit: a permit is taken from the counter; with one, a worker starts.
CacheModGitPermit(t) ==
    /\ Running
    /\ t.pc = "permit"
    /\ gitCloneWorkers' = gitCloneWorkers - 1
    /\ IF PermitGranted(gitCloneWorkers - 1)
       THEN /\ workers' = workers (+) SetToBag({NewWorker})
            /\ TaskGoto(t, [t EXCEPT !.pc = "send"])
       ELSE /\ UNCHANGED workers
            /\ TaskGoto(t, [t EXCEPT !.pc = "restore"])
    /\ UNCHANGED <<call, serve, pendingGit, gitClones, git, vcs, panicked, nReq, lastResp,
                   nSubmit>>

\* cacheModGit: the permit that was not there is given back.
CacheModGitRestore(t) ==
    /\ Running
    /\ t.pc = "restore"
    /\ gitCloneWorkers' = gitCloneWorkers + 1
    /\ TaskGoto(t, [t EXCEPT !.pc = "send"])
    /\ UNCHANGED <<call, serve, pendingGit, gitClones, workers, git, vcs, panicked, nReq, lastResp,
                   nSubmit>>

\* cacheModGit: the root is sent to the channel, which blocks while the
\* channel is full; then the task returns.
CacheModGitSend(t) ==
    /\ Running
    /\ t.pc = "send"
    /\ Len(gitClones) < NumCPU
    /\ gitClones' = Append(gitClones, t.modulePath)
    /\ TaskReturn(t)
    /\ UNCHANGED <<call, serve, pendingGit, gitCloneWorkers, workers, git, vcs, panicked, nReq,
                   lastResp,
                   nSubmit>>

\* ---------------------------------------------------------- the clone workers

\* The worker goes on as u.
WorkerGoto(w, u) == workers' = (workers (-) SetToBag({w})) (+) SetToBag({u})

\* gitCloneWorker: a root is received from the channel.
WorkerRecv(w) ==
    /\ Running
    /\ w.pc = "recv"
    /\ gitClones # << >>
    /\ gitClones' = Tail(gitClones)
    /\ WorkerGoto(w, [w EXCEPT !.pc = "load", !.modulePath = Head(gitClones)])
    /\ UNCHANGED <<call, serve, pendingMod, pendingGit, gitCloneWorkers, tasks, git, vcs, panicked,
                   nReq, lastResp, nSubmit>>

\* A worker that takes the entry out of pendingGit when it loads it.
PendingGitLoadAndDelete(modulePath) == Without(pendingGit, modulePath)

\* pendingGit after the worker's Load.
PendingGitAfterLoad(modulePath) == pendingGit

\* gitCloneWorker: the remote of the root is loaded; the worker panics when
\* the root has no entry.
WorkerLoad(w) ==
    /\ Running
    /\ w.pc = "load"
    /\ IF w.modulePath \in DOMAIN pendingGit
       THEN /\ WorkerGoto(w, [w EXCEPT !.pc = "func", !.remote = pendingGit[w.modulePath]])
            /\ UNCHANGED panicked
       ELSE /\ panicked' = TRUE
            /\ UNCHANGED workers
    /\ pendingGit' = PendingGitAfterLoad(w.modulePath)
    /\ UNCHANGED <<call, serve, pendingMod, gitClones, gitCloneWorkers, tasks, git, vcs,
                   nReq, lastResp, nSubmit>>

\* A worker that leaves the root's entry in pendingGit.
PendingGitKept(modulePath) == pendingGit

\* p.pendingGit.Delete(modulePath)
PendingGitDelete(modulePath) == Without(pendingGit, modulePath)

\* gitCloneWorkerFunc has returned: the root's entry is deleted and the
\* worker waits for the next root.
WorkerFinish(w) ==
    /\ pendingGit' = PendingGitDelete(w.modulePath)
    /\ WorkerGoto(w, NewWorker)

\* gitCloneWorkerFunc begins: with no remote it runs git remote update,
\* else it makes the module directory and a temporary directory in it.
WorkerStart(w) ==
    /\ Running
    /\ w.pc = "func"
    /\ IF w.remote = ""
       THEN WorkerGoto(w, [w EXCEPT !.pc = "update"]) /\ UNCHANGED pendingGit
       ELSE \E mkdirOk \in BOOLEAN :
                IF mkdirOk
                THEN WorkerGoto(w, [w EXCEPT !.pc = "clone", !.tmp = "partial"])
                     /\ UNCHANGED pendingGit
                ELSE WorkerFinish(w)
    /\ UNCHANGED <<call, serve, pendingMod, gitClones, gitCloneWorkers, tasks, git, vcs, panicked,
                   nReq, lastResp, nSubmit>>

\* git remote update has ended, whatever its result.
WorkerUpdateDone(w) ==
    /\ Running
    /\ w.pc = "update"
    /\ WorkerFinish(w)
    /\ UNCHANGED <<call, serve, pendingMod, gitClones, gitCloneWorkers, tasks, git, vcs, panicked,
                   nReq, lastResp, nSubmit>>

\* A worker that does not look at the result of git clone.
CloneErrIgnored(cloneOk) == FALSE

\* err != nil after git clone.
CloneErr(cloneOk) == ~cloneOk

\* git clone has ended: on an error the temporary directory is removed.
WorkerCloneDone(w) ==
    /\ Running
    /\ w.pc = "clone"
    /\ \E cloneOk \in BOOLEAN :
           IF CloneErr(cloneOk)
           THEN WorkerFinish(w)
           ELSE /\ WorkerGoto(w, [w EXCEPT !.pc = "rename",
                                           !.tmp = IF cloneOk THEN "complete" ELSE "partial"])
                /\ UNCHANGED pendingGit
    /\ UNCHANGED <<call, serve, pendingMod, gitClones, gitCloneWorkers, tasks, git, vcs, panicked,
                   nReq, lastResp, nSubmit>>

\* A rename that replaces the directory that is there.
RenameOverwrites(modulePath, sysOk) == sysOk

\* os.Rename of a directory succeeds only when the target does not exist.
RenameOk(modulePath, sysOk) == sysOk /\ modulePath \notin DOMAIN git

\* The temporary directory is renamed to .git, or removed when that fails.
WorkerRename(w) ==
    /\ Running
    /\ w.pc = "rename"
    /\ \E sysOk \in BOOLEAN :
           IF RenameOk(w.modulePath, sysOk)
           THEN /\ git' = With(git, w.modulePath, w.tmp)
                /\ WorkerGoto(w, [w EXCEPT !.pc = "symlink", !.tmp = "none"])
                /\ UNCHANGED pendingGit
           ELSE /\ WorkerFinish(w)
                /\ UNCHANGED git
    /\ UNCHANGED <<call, serve, pendingMod, gitClones, gitCloneWorkers, tasks, vcs, panicked,
                   nReq, lastResp, nSubmit>>

\* os.Symlink(".git", <root>/.vcs): a failure is logged and nothing else.
WorkerSymlink(w) ==
    /\ Running
    /\ w.pc = "symlink"
    /\ \E sysOk \in BOOLEAN :
           vcs' = IF sysOk /\ w.modulePath \notin DOMAIN vcs
                  THEN With(vcs, w.modulePath, DotGit)
                  ELSE vcs
    /\ WorkerFinish(w)
    /\ UNCHANGED <<call, serve, pendingMod, gitClones, gitCloneWorkers, tasks, git, panicked,
                   nReq, lastResp, nSubmit>>

\* ------------------------------------------------------ the cached-only mode

\* The request paths below <prefix>cached-only/ that clients send.
CachedReqPaths ==
    { ModA \o AtV \o V100 \o ExtInfo,
      ModAB \o AtV \o V100 \o ExtZip,
      ModA \o <<"/", "v", "2">> \o AtV \o V200 \o ExtMod,
      GopkgA1 \o AtV \o V200 \o ExtInfo,
      Host \o <<"/", "A">> \o AtV \o V100 \o ExtInfo,
      ModA \o AtLatest,
      ModA \o AtV \o List,
      ModA \o AtV \o V100,
      ModA \o AtV \o V100 \o <<".", "t", "x", "t">>,
      ModA,
      SumdbPrefix \o <<"x">> }

\* What the client of a cached-only request gets; queried is whether
\* serveModLocal looked the module up in the working directory.
CachedResponse(urlPath, code, queried) ==
    [path |-> urlPath, code |-> code, location |-> <<>>, existing |-> FALSE,
     queried |-> queried]

\* A serveModCached that also takes a property without extension.
CachedExtOrNone(ext) == ext \in {ExtInfo, ExtMod, ExtZip, <<>>}

\* serveModCached's switch: the extensions that have a content type.
CachedExt(ext) == ext \in {ExtInfo, ExtMod, ExtZip}

\* serveModLocal: the module is looked up; serveModGit answers from the
\* repository (gitOk) or fails.
ServeModLocal(urlPath, lo, gitOk) ==
    IF lo.found /\ gitOk THEN CachedResponse(urlPath, 200, TRUE)
    ELSE CachedResponse(urlPath, 500, TRUE)

ServeCachedChecked(urlPath, cm, gitOk) ==
    IF ~cm.ok THEN CachedResponse(urlPath, 500, FALSE)
    ELSE ServeModLocal(urlPath, CheckModVcsLocal(cm.path), gitOk)

ServeCachedUnescaped(urlPath, u, ver, gitOk) ==
    IF ~u.ok THEN CachedResponse(urlPath, 500, FALSE)
    ELSE ServeCachedChecked(urlPath, CheckModulePathVer(u.path, ver), gitOk)

ServeCachedSwitch(urlPath, pr, ext, gitOk) ==
    IF ~CachedExt(ext) THEN CachedResponse(urlPath, 500, FALSE)
    ELSE ServeCachedUnescaped(urlPath, UnescapePath(pr.escapedModulePath),
                              DropExt(pr.prop, ext), gitOk)

ServeCachedParsed(urlPath, pr, gitOk) ==
    IF ~pr.ok THEN CachedResponse(urlPath, pr.code, FALSE)
    ELSE ServeCachedSwitch(urlPath, pr, PathExt(pr.prop), gitOk)

\* serveModCached, the whole handler: parse, check the extension, unescape
\* and check the module path and version, serve from the local repository.
ServeModCached(urlPath) ==
    /\ nReq < MaxReq
    /\ Running
    /\ nReq' = nReq + 1
    /\ \E gitOk \in BOOLEAN :
           lastResp' = ServeCachedParsed(urlPath, ParseRequest(urlPath), gitOk)
    /\ UNCHANGED <<call, serve, pendingMod, pendingGit, gitClones, gitCloneWorkers, workers,
                   tasks, git, vcs, panicked, nSubmit>>

\* ------------------------------------------- the resolver functions, called

\* Every string of at most two characters over v, 2, + and a letter.
TagTails ==
    {<<>>} \cup {<<c>> : c \in {"2", "+", "b"}}
    \cup {<<c, d>> : c \in {"2", "+", "b"}, d \in {"2", "+", "b"}}

\* The module paths the split is called with: one to three components, the
\* last ones being v followed by digits, a sign, or something else; and
\* paths with an empty or a dotted component.
SplitPaths ==
    {Host, <<"v", "2">>, Host \o <<"/">>, Host \o <<"/", "/", "a">>,
     Host \o <<"/", ".", "a">>, ModA, ModAB}
    \cup {Host \o <<"/", "v">> \o tl : tl \in TagTails}
    \cup {ModA \o <<"/", "v">> \o tl : tl \in TagTails}
    \cup {Host \o <<"/", "v", "2", "/", "v">> \o tl : tl \in TagTails}

\* The gopkg.in/ paths the check is called with.
GopkgPaths ==
    {GopkgA1, GopkgIn \o <<"a", ".", "v", "2">>, GopkgIn \o <<"a">>,
     GopkgIn \o <<"a", ".", "v">>, GopkgIn \o <<"a", ".", "b">>}

\* The paths the path/version check is called with.
CheckPaths ==
    GopkgPaths
    \cup {Host, ModA, ModA \o <<"/", "v", "2">>, ModA \o <<"/", "v", "1">>,
          ModA \o <<"/", "v", "b">>, Host \o <<"/", ".", "a">>}

\* The versions the path/version check is called with.
CheckVersions ==
    {V100, V200, <<"v", "0", ".", "1", ".", "0">>, <<"v", "2", "0", ".", "0", ".", "0">>,
     V100 \o PlusIncompatible, V200 \o PlusIncompatible, V200 \o <<"+", "m">>,
     <<"v", "1">>, <<"b", "1", ".", "0", ".", "0">>, Latest, <<>>}

\* The module paths the local lookup is called with.
LookupPaths == {Host, ModA, ModAB, ModAB \o <<"/", "c">>, Host \o <<"/", "c">>}

\* The working directories the lookup is called in: any set of the
\* prefixes holds a finished clone.
CacheRoots == PrefixesOf(ModAB \o <<"/", "c">>)

\* splitModuleMajorVer(modulePath) is called.
SplitModuleMajorVerCall(modulePath) ==
    /\ call' = [fn |-> "splitModuleMajorVer", modulePath |-> modulePath, ver |-> <<>>,
                out |-> SplitModuleMajorVer(modulePath)]
    /\ UNCHANGED <<pendingMod, pendingGit, gitClones, gitCloneWorkers, workers, tasks,
                   git, vcs, panicked, nReq, lastResp, nSubmit, serve>>

\* checkModulePathVer(modulePath, ver) is called.
CheckModulePathVerCall(modulePath, ver) ==
    /\ call' = [fn |-> "checkModulePathVer", modulePath |-> modulePath, ver |-> ver,
                out |-> CheckModulePathVer(modulePath, ver)]
    /\ UNCHANGED <<pendingMod, pendingGit, gitClones, gitCloneWorkers, workers, tasks,
                   git, vcs, panicked, nReq, lastResp, nSubmit, serve>>

\* checkModVcsLocal(modulePath) is called.
CheckModVcsLocalCall(modulePath) ==
    /\ call' = [fn |-> "checkModVcsLocal", modulePath |-> modulePath, ver |-> <<>>,
                out |-> CheckModVcsLocal(modulePath)]
    /\ UNCHANGED <<pendingMod, pendingGit, gitClones, gitCloneWorkers, workers, tasks,
                   git, vcs, panicked, nReq, lastResp, nSubmit, serve>>

\* ------------------------------------------- serveModGit, step by step

\* The variables that serveModGit leaves alone.
others == <<pendingMod, pendingGit, gitClones, gitCloneWorkers, workers, tasks,
            git, vcs, panicked, nReq, lastResp, nSubmit, call>>

PseudoGood == <<"v", "0", ".", "0", ".", "0", "-", "2", "0", "0", "6", "0", "1", "0", "2", "1", "5", "0", "4", "0", "5", "-", "a", "b">>

\* A pseudo-version whose timestamp has month 13.
PseudoBadMonth == <<"v", "0", ".", "0", ".", "0", "-", "2", "0", "0", "6", "1", "3", "0", "2", "1", "5", "0", "4", "0", "5", "-", "a", "b">>

\* A pseudo-version whose timestamp is that of time.Time{}.
PseudoZero == <<"v", "0", ".", "0", ".", "0", "-", "0", "0", "0", "1", "0", "1", "0", "1", "0", "0", "0", "0", "0", "0", "-", "a", "b">>

\* The canonical versions serveModGit is called with.
ServeVersions == {V100, PseudoGood, PseudoBadMonth, PseudoZero}

\* The sub-directories of the module in its repository.
SubPaths == {<<>>, <<"c">>}

\* The major tags split off the module path.
MajorTags == {<<>>, <<"v", "2">>}

\* What git log --format=%ct can print: 2006-01-02 15:04:05 UTC, one second
\* later, and 2024-02-29 23:59:59 UTC.
CommitTimes == {1136214245, 1136214246, 1709251199}

TreeColon == <<"^", "{", "t", "r", "e", "e", "}", ":">>

License == <<"L", "I", "C", "E", "N", "S", "E">>

GoMod == <<"g", "o", ".", "m", "o", "d">>

\* The regular files the first pass can find in the tree of the request.
SurveyNames(vertag) ==
    {License, <<"d", "/">> \o GoMod}
    \cup (IF vertag = <<>> THEN {}
          ELSE {vertag \o <<"/">> \o License, vertag \o <<"/">> \o GoMod})

\* Whether the context of an invocation class has a deadline: the clone and
\* the remote update have GitCloneTimeout, the HTTP calls their timeouts;
\* the commands of serveModGit, collectGitArchiveOpts and cacheModGit's git
\* log run under context.Background() or exec.Command.
Deadline(site) == site \in {"clone", "update", "upstream", "direct"}

\* A subprocess that never exits is killed when its deadline expires, and
\* then it has failed.
Outcome(site, res) == IF res = "hang" /\ Deadline(site) THEN "err" ELSE res

\* module.IsPseudoVersion, module.PseudoVersionTime and
\* module.PseudoVersionRev of each version, computed once.
ServePseudo == [ver \in ServeVersions |-> IsPseudoVersion(ver)]

ServeTime == [ver \in ServeVersions |-> PseudoVersionTime(ver)]

ServeRev == [ver \in ServeVersions |-> PseudoVersionRev(ver)]

\* refspec at the head of serveModGit.
InitialRefspec(subPath, ver, pseudoVer) ==
    IF pseudoVer THEN ServeRev[ver]
    ELSE IF subPath # <<>> THEN subPath \o <<"/">> \o ver
    ELSE ver

\* serveModGit(modulePath, verMajorTag, subPath, verCanonical, ext, incompat)
\* is called for the repository of x.y/a.
ServeModGitBegin(subPath, verMajorTag, ver, ext, incompat) ==
    /\ serve.pc \in {"idle", "done"}
    /\ serve' = [NoServe EXCEPT
                    !.pc = "log", !.ext = ext, !.subPath = subPath,
                    !.major = verMajorTag, !.ver = ver, !.incompat = incompat,
                    !.pseudoVer = ServePseudo[ver],
                    !.timestamp = IF ServePseudo[ver] THEN ServeTime[ver].t ELSE ZeroTime,
                    !.refspec = InitialRefspec(subPath, ver, ServePseudo[ver])]
    /\ UNCHANGED others

\* A command is run, or its start is tried.
Ran(s, cmd, arg) == [s EXCEPT !.cmds = Append(@, [cmd |-> cmd, arg |-> arg])]

\* A streaming subprocess was started and is not waited for.
Started(s) == [s EXCEPT !.started = @ + 1]

\* A streaming subprocess was started and cmd.Wait() has returned.
Waited(s) == [s EXCEPT !.started = @ + 1, !.waited = @ + 1]

\* The goroutine waits for a subprocess that never exits.
Hung(s) == [s EXCEPT !.pc = "hung", !.started = @ + 1]

\* serveModGit returns an error: the deferred out.Close() calls run and
\* serveModCached answers 500.
Returned(s, err) ==
    [s EXCEPT !.pc = "done", !.err = err, !.code = 500, !.closed = s.started]

\* serveModGit returns a reader: the deferred out.Close() calls run,
\* serveModCached answers 200, copies the data and closes the reader.
Served(s, kind, data) ==
    [s EXCEPT !.pc = "done", !.code = 200, !.kind = kind, !.data = data,
              !.closed = s.started,
              !.archive = IF s.archive = "open" THEN "closed" ELSE s.archive]

\* archiveTmp.Close() before an error return.
Closed(s) == [s EXCEPT !.archive = "closed"]

\* git log has failed: a tag is tried again without its leading v when the
\* version is no pseudo-version and there is no sub-directory.
LogFailed(s) ==
    IF ~s.pseudoVer /\ s.subPath = <<>> /\ HasPrefix(s.refspec, <<"v">>)
    THEN [s EXCEPT !.refspec = TrimPrefix(s.refspec, <<"v">>)]
    ELSE Returned(s, "failed to get commit date")

\* ver: the canonical version, with +incompatible when the flag is set.
VersionOut(s) == IF s.incompat THEN s.ver \o PlusIncompatible ELSE s.ver

\* modFull: module path, sub-directory and major tag, joined by '/'.
ModFull(s) ==
    ModA \o (IF s.subPath # <<>> THEN <<"/">> \o s.subPath ELSE <<>>)
         \o (IF s.major # <<>> THEN <<"/">> \o s.major ELSE <<>>)

\* treeish of the .mod branch: refspec^{tree}: and the sub-directory.
ModTreeish(s) ==
    s.refspec \o TreeColon \o (IF s.subPath # <<>> THEN s.subPath \o <<"/">> ELSE <<>>)

\* The commit time is known: the timestamp of a pseudo-version is checked,
\* then the extension decides.
Dated(s) ==
    IF s.timestamp # ZeroTime /\ UnixUTC(s.tm) # s.timestamp
    THEN Returned(s, "timestamp mismatch")
    ELSE IF s.ext = ExtInfo
    THEN Served([s EXCEPT !.time = UnixUTC(s.tm)], "info", VersionOut(s))
    ELSE IF s.ext = ExtMod
    THEN [s EXCEPT !.pc = "mod", !.treeish = ModTreeish(s) \o s.major]
    ELSE [s EXCEPT !.pc = "pass1"]

LogOutcome(s, res, tm) ==
    IF res = "starterr" THEN LogFailed(s)
    ELSE IF res = "hang" THEN Hung(s)
    ELSE IF res = "ok" THEN Dated([Waited(s) EXCEPT !.tm = tm])
    ELSE LogFailed(Waited(s))

\* runGitOutputShort(git log -1 --format=%ct refspec) and strconv.ParseInt:
\* the command does not start, never exits, fails, prints no number, or
\* prints the commit time.
GitLog ==
    /\ serve.pc = "log"
    /\ \E res \in {"starterr", "hang", "err", "nan", "ok"}, tm \in CommitTimes :
           serve' = LogOutcome(Ran(serve, "log", serve.refspec), Outcome("log", res), tm)
    /\ UNCHANGED others

\* A .mod branch that tries the same tree again whatever it was.
ModRetryAlways(s) == TRUE

\* cmdArgs[2] != treeish: the tree with the major tag was tried.
ModRetry(s) == s.treeish # ModTreeish(s)

ModOutcome(s, res) ==
    IF res = "starterr" THEN Returned(s, "Failed to run git archive")
    ELSE IF res = "hang" THEN Hung(s)
    ELSE IF res = "ok" THEN Served(Waited(s), "file", s.treeish \o GoMod)
    ELSE IF ModRetry(s) THEN [Waited(s) EXCEPT !.treeish = ModTreeish(s)]
    ELSE Served(Waited(s), "synthesized",
                <<"m", "o", "d", "u", "l", "e", " ">> \o ModFull(s) \o <<"\n">>)

\* git archive --format=tar <cmdArgs[2]> go.mod: the command does not start,
\* never exits, gives no go.mod or fails, or gives the file.
GitArchiveMod ==
    /\ serve.pc = "mod"
    /\ \E res \in {"starterr", "hang", "err", "ok"} :
           serve' = ModOutcome(Ran(serve, "archive-mod", serve.treeish),
                               Outcome("archive-mod", res))
    /\ UNCHANGED others

\* collectGitArchiveOpts: the module lives in the directory of its major tag.
UseVersionedDir(files, vertag) == vertag \o <<"/">> \o GoMod \in files

\* collectGitArchiveOpts: hasLicense as it is returned.
HasLicense(files, vertag) ==
    IF UseVersionedDir(files, vertag) THEN vertag \o <<"/">> \o License \in files
    ELSE License \in files

\* collectGitArchiveOpts: the treeish of the second pass.
ZipTreeish(treeish, files, vertag) ==
    IF UseVersionedDir(files, vertag)
    THEN treeish \o (IF HasSuffix(treeish, <<":">>) THEN <<>> ELSE <<"/">>) \o vertag
    ELSE treeish

\* The first pass is over: the unnamed temporary file of the archive is made.
Surveyed(s, files, tmpOk) ==
    IF ~tmpOk THEN Returned(s, "failed to create temp file (archive)")
    ELSE [s EXCEPT !.pc = "pass2", !.files = files,
                   !.hasLicense = HasLicense(files, s.major),
                   !.treeish = ZipTreeish(s.refspec \o TreeColon \o s.subPath, files, s.major),
                   !.archive = "open"]

SurveyOutcome(s, res, files, tmpOk) ==
    IF res = "starterr" THEN Returned(s, "failed to start git archive (first pass)")
    ELSE IF res = "hang" THEN Hung(s)
    ELSE IF res = "parseerr"
    THEN Returned(Started(s), "failed to parse git archive (first pass)")
    ELSE IF res = "err"
    THEN Returned(Waited(s), "git archive (first pass) returned error")
    ELSE Surveyed(Waited(s), files, tmpOk)

\* The first pass, collectGitArchiveOpts, and createUnnamedTmpFile: the
\* command does not start, never exits, writes a broken tar, fails, or lists
\* the files of the tree.  (The exclusions it collects are left out.)
GitArchiveSurvey ==
    /\ serve.pc = "pass1"
    /\ \E res \in {"starterr", "hang", "parseerr", "err", "ok"},
          files \in SUBSET SurveyNames(serve.major), tmpOk \in BOOLEAN :
           serve' = SurveyOutcome(Ran(serve, "archive-survey",
                                      serve.refspec \o TreeColon \o serve.subPath),
                                  Outcome("archive-survey", res), files, tmpOk)
    /\ UNCHANGED others

ZipOutcome(s, res) ==
    IF res = "hang" THEN [s EXCEPT !.pc = "hung"]
    ELSE IF res = "err"
    THEN Returned(Closed(s), "failed to run git archive (second pass)")
    ELSE [s EXCEPT !.pc = "pass3"]

\* The second pass: git archive --format=zip into the temporary file.
GitArchiveZip ==
    /\ serve.pc = "pass2"
    /\ \E res \in {"hang", "err", "ok"} :
           serve' = ZipOutcome(Ran(serve, "archive-zip", serve.treeish),
                               Outcome("archive-zip", res))
    /\ UNCHANGED others

\* The fourth pass is skipped when the first found no LICENSE and the
\* request has neither sub-directory nor major tag.
SkipLicenseIfNone(s) == ~s.hasLicense /\ s.subPath = <<>> /\ s.major = <<>>

\* hasLicense || (subPath == "" && verMajorTag == "")
SkipLicense(s) == s.hasLicense \/ (s.subPath = <<>> /\ s.major = <<>>)

TrimOutcome(s, res) ==
    IF res = "hang" THEN [s EXCEPT !.pc = "hung"]
    ELSE IF res = "err"
    THEN Returned(Closed(s), "failed to trim zip file (third pass)")
    ELSE IF SkipLicense(s) THEN Served(s, "zip", <<>>)
    ELSE [s EXCEPT !.pc = "pass4"]

\* The third pass: zip -d removes the directory entries; exit code 12,
\* nothing to do, is no error.
ZipDelete ==
    /\ serve.pc = "pass3"
    /\ \E res \in {"hang", "err", "exit12", "ok"} :
           serve' = TrimOutcome(Ran(serve, "zip-d", <<>>), Outcome("zip-d", res))
    /\ UNCHANGED others

\* The LICENSE of this prefix is not in .tmp/licenses: it is copied from
\* the tar stream into a temporary file and linked.
LicenseCopied(s, res, tmpOk) ==
    IF ~tmpOk THEN Returned(Closed(Started(s)), "failed to create temp file (LICENSE)")
    ELSE IF res = "hang" THEN Hung(s)
    ELSE IF res = "err" THEN Served(Started(s), "zip", <<>>)
    ELSE [Started(s) EXCEPT !.pc = "zipg"]

LicenseOutcome(s, res, cached, tmpOk) ==
    IF res = "starterr" THEN Returned(s, "failed to run git archive (LICENSE)")
    ELSE IF cached THEN [Started(s) EXCEPT !.pc = "zipg"]
    ELSE LicenseCopied(s, res, tmpOk)

\* The fourth pass: git archive --format=tar refspec^{tree} LICENSE is
\* started, and read unless the LICENSE of this prefix is there already.
GitArchiveLicense ==
    /\ serve.pc = "pass4"
    /\ \E res \in {"starterr", "hang", "err", "ok"}, cached \in BOOLEAN, tmpOk \in BOOLEAN :
           serve' = LicenseOutcome(Ran(serve, "archive-license", serve.refspec \o <<"^", "{", "t", "r", "e", "e", "}">>),
                                   Outcome("archive-license", res), cached, tmpOk)
    /\ UNCHANGED others

AppendOutcome(s, res) ==
    IF res = "hang" THEN [s EXCEPT !.pc = "hung"]
    ELSE IF res = "err" THEN Returned(Closed(s), "failed to append LICENSE to zip")
    ELSE Served(s, "zip", License)

\* zip -g appends the LICENSE to the archive.
ZipGrow ==
    /\ serve.pc = "zipg"
    /\ \E res \in {"hang", "err", "ok"} :
           serve' = AppendOutcome(Ran(serve, "zip-g", <<>>), Outcome("zip-g", res))
    /\ UNCHANGED others

\* ------------------------------------------------------------ the program

Request == \E full \in IncomingPaths : MonitorModFetch(Stripped[full])

\* Some resolver task takes its next step.
TaskStep ==
    \/ \E t \in BagToSet(tasks) : RefreshLocal(t)
    \/ \E t \in BagToSet(tasks) : RefreshRemote(t)
    \/ \E t \in BagToSet(tasks) : CacheModGitLocal(t)
    \/ \E t \in BagToSet(tasks) : CacheModGitStore(t)
    \/ \E t \in BagToSet(tasks) : CacheModGitPermit(t)
    \/ \E t \in BagToSet(tasks) : CacheModGitRestore(t)
    \/ \E t \in BagToSet(tasks) : CacheModGitSend(t)

\* Some clone worker takes its next step.
WorkerStep ==
    \/ \E w \in BagToSet(workers) : WorkerRecv(w)
    \/ \E w \in BagToSet(workers) : WorkerLoad(w)
    \/ \E w \in BagToSet(workers) : WorkerStart(w)
    \/ \E w \in BagToSet(workers) : WorkerUpdateDone(w)
    \/ \E w \in BagToSet(workers) : WorkerCloneDone(w)
    \/ \E w \in BagToSet(workers) : WorkerRename(w)
    \/ \E w \in BagToSet(workers) : WorkerSymlink(w)

Next == Request \/ TaskStep \/ WorkerStep

Spec == Init /\ [][Next]_vars

\* The Go scheduler runs every goroutine that can take a step, and every
\* subprocess and network call ends.
FairSpec == Spec /\ WF_vars(TaskStep) /\ WF_vars(WorkerStep)

\* The server with a filled cache and no background work: any set of the
\* roots has been cloned.
ResolverInit ==
    /\ pendingMod = {}
    /\ pendingGit = << >>
    /\ gitClones = << >>
    /\ gitCloneWorkers = NumCPU
    /\ workers = EmptyBag
    /\ tasks = EmptyBag
    /\ \E cached \in SUBSET CacheRoots :
           /\ git = [P \in cached |-> "complete"]
           /\ vcs = [P \in cached |-> DotGit]
    /\ panicked = FALSE
    /\ nReq = 0
    /\ lastResp = NoResp
    /\ nSubmit = 0
    /\ call = NoCall
    /\ serve = NoServe

CachedRequest == \E urlPath \in CachedReqPaths : ServeModCached(urlPath)

SplitCall == \E modulePath \in SplitPaths : SplitModuleMajorVerCall(modulePath)

CheckCall ==
    \E modulePath \in CheckPaths, ver \in CheckVersions :
        CheckModulePathVerCall(modulePath, ver)

LookupCall == \E modulePath \in LookupPaths : CheckModVcsLocalCall(modulePath)

\* The cached-only handler over a filled cache.
CachedSpec == ResolverInit /\ [][CachedRequest]_vars

ResolverNext == SplitCall \/ CheckCall \/ LookupCall

\* The resolver functions, called with any of their arguments over a filled
\* cache.
ResolverSpec == ResolverInit /\ [][ResolverNext]_vars

\* The server with the repository of x.y/a cloned and no background work.
ServeInit ==
    /\ pendingMod = {}
    /\ pendingGit = << >>
    /\ gitClones = << >>
    /\ gitCloneWorkers = NumCPU
    /\ workers = EmptyBag
    /\ tasks = EmptyBag
    /\ git = [P \in {ModA} |-> "complete"]
    /\ vcs = [P \in {ModA} |-> DotGit]
    /\ panicked = FALSE
    /\ nReq = 0
    /\ lastResp = NoResp
    /\ nSubmit = 0
    /\ call = NoCall
    /\ serve = NoServe

ServeCall ==
    \E subPath \in SubPaths, verMajorTag \in MajorTags, ver \in ServeVersions,
       ext \in {ExtInfo, ExtMod, ExtZip}, incompat \in BOOLEAN :
        ServeModGitBegin(subPath, verMajorTag, ver, ext, incompat)

\* The goroutine of the request takes the next step of serveModGit.
ServeStep ==
    \/ GitLog
    \/ GitArchiveMod
    \/ GitArchiveSurvey
    \/ GitArchiveZip
    \/ ZipDelete
    \/ GitArchiveLicense
    \/ ZipGrow

ServeNext == ServeCall \/ ServeStep

\* serveModGit, called with any of its arguments over a cloned repository,
\* its subprocesses and system calls ending in any way they can.
ServeSpec == ServeInit /\ [][ServeNext]_vars

\* The Go scheduler runs the goroutine of the request whenever it can take
\* a step.
ServeFairSpec == ServeSpec /\ WF_vars(ServeStep)

\* ------------------------------------------------------------ the properties

\* The repository roots the requests can resolve to.
Roots == PrefixesOf(ModAB)

\* A worker that has taken a root from the channel and not yet deleted it.
Busy(w) == w.pc # "recv"

\* The number of workers that hold root P.
WorkersOn(P) ==
    BagCardinality([w \in {x \in BagToSet(workers) : Busy(x) /\ x.modulePath = P}
                       |-> workers[w]])

\* The number of items of the channel that are root P.
QueueItems(P) == Cardinality({i \in DOMAIN gitClones : gitClones[i] = P})

\* The number of resolver tasks of a key.
TasksOf(key) ==
    BagCardinality([t \in {x \in BagToSet(tasks) : x.key = key} |-> tasks[t]])

\* The number of resolver tasks at a position.
TasksAt(pc) ==
    BagCardinality([t \in {x \in BagToSet(tasks) : x.pc = pc} |-> tasks[t]])

\* A task has stored root P and not yet sent it.
InFlight(P) ==
    \E t \in BagToSet(tasks) : t.pc \in {"permit", "restore", "send"} /\ t.modulePath = P

\* Two .info, .mod or .zip requests have the same key exactly when they name
\* the same module and version.
KeysShared ==
    \A u, v \in {x \in ReqPaths : IsArtifactPath(x)} :
        RequestKey(u) = RequestKey(v) <=>
            /\ Parsed[u].escapedModulePath = Parsed[v].escapedModulePath
            /\ VersionOf(u) = VersionOf(v)

\* C1: for every root P, at most one worker or queue item holds P at any
\* instant: never two workers on P, never two queue items for P, and never
\* a queue item for P while a worker is on P.
C1_SingleFlightPerRoot == \A P \in Roots : WorkersOn(P) + QueueItems(P) <= 1

\* C1, its case: a worker is cloning or updating P while the task of another
\* request has resolved to the same P and is about to store it.
C1_Witness ==
    \E w \in BagToSet(workers), t \in BagToSet(tasks) :
        /\ w.pc \in {"clone", "update"}
        /\ t.pc = "store"
        /\ t.modulePath = w.modulePath

\* C2: whatever is under the name <P>/.git is a complete clone, and <P>/.vcs
\* exists only where <P>/.git does; an unfinished clone is only in a
\* worker's temporary directory.
C2_GitDirComplete ==
    /\ \A P \in DOMAIN git : git[P] = "complete"
    /\ DOMAIN vcs \subseteq DOMAIN git

\* C2, its case: P is ready and a second clone of P is unfinished in its
\* temporary directory.
C2_Witness ==
    \E w \in BagToSet(workers) :
        w.pc = "clone" /\ w.tmp = "partial" /\ w.modulePath \in DOMAIN vcs

\* C3: once no worker holds P, <P>/.vcs exists if and only if a clone was
\* renamed to <P>/.git.
C3_VcsIffCloned ==
    \A P \in Roots : WorkersOn(P) = 0 => (P \in DOMAIN vcs <=> P \in DOMAIN git)

\* C4 as stated: every .info, .mod or .zip request is answered 301.
C4_ArtifactAlwaysRedirected ==
    IsArtifactPath(lastResp.path) => lastResp.code = 301

\* C4: an .info, .mod or .zip request is answered 301 with the upstream URL of
\* its path when its escaped module path unescapes, and 500 when it does not;
\* whatever the cache, the pending sets and the background tasks are.
C4_ArtifactRedirectedIfUnescapes ==
    IsArtifactPath(lastResp.path) =>
        IF Unescaped[Parsed[lastResp.path].escapedModulePath].ok
        THEN /\ lastResp.code = 301
             /\ lastResp.location = UpstreamProxy \o <<"/">> \o lastResp.path
        ELSE /\ lastResp.code = 500
             /\ lastResp.location = <<>>

\* C4, its case: a request whose module path has an upper-case letter got 500.
C4_Witness ==
    /\ lastResp.path = Host \o <<"/", "A">> \o AtV \o V100 \o ExtInfo
    /\ lastResp.code = 500

\* C5: the handler can answer any request in every state: nothing it does
\* waits for the channel, a worker, git or the network.
C5_HandlerNeverBlocks ==
    \A urlPath \in ReqPaths :
        (nReq < MaxReq /\ Running) => ENABLED MonitorModFetch(urlPath)

\* C5, its case: the channel is full and every worker is busy, and a request
\* can still come.
C5_Witness ==
    /\ Len(gitClones) = NumCPU
    /\ BagCardinality(workers) = NumCPU
    /\ \A w \in BagToSet(workers) : Busy(w)
    /\ nReq < MaxReq

\* C6: requests for the same module and version share their key whatever
\* the extension, and others do not; there is at most one resolver task per
\* key; a request that found its key pending got its redirect.
C6_OneTaskPerKey ==
    /\ KeysShared
    /\ \A t \in BagToSet(tasks) : TasksOf(t.key) = 1
    /\ lastResp.existing => lastResp.code = 301

\* C6, its case: the last request found its key pending, the one task of the
\* key is still there.
C6_Witness ==
    /\ lastResp.existing
    /\ lastResp.path = ModA \o AtV \o V100 \o ExtZip
    /\ TasksOf(RequestKey(lastResp.path)) = 1

\* C7 as stated: while a clone or update is queued or running, the key
\* whose task enqueued it is pending, so some key is.
C7_PendingWhileCloneWork ==
    (gitClones # << >> \/ \E w \in BagToSet(workers) : Busy(w)) => pendingMod # {}

\* C7: a key is pending exactly while its resolver task has not returned.
C7_PendingIsLiveTasks == pendingMod = {t.key : t \in BagToSet(tasks)}

\* C7, its case: a clone is running and no key is pending.
C7_Witness ==
    /\ pendingMod = {}
    /\ \E w \in BagToSet(workers) : w.pc = "clone"

\* C8: every root in pendingGit is eventually taken out of it.
C8_PendingGitDrains ==
    \A P \in Roots : (P \in DOMAIN pendingGit) ~> (P \notin DOMAIN pendingGit)

\* C8, its case: more roots are pending than the channel and the workers
\* hold, and a task waits to send.
C8_Witness ==
    /\ Cardinality(DOMAIN pendingGit) > 2 * NumCPU
    /\ Len(gitClones) = NumCPU
    /\ TasksAt("send") > 0

\* C9: there are never more than NumCPU workers, the counter is never above
\* NumCPU, the workers started are as many as the permits asked for, up to
\* NumCPU, and every stored root is on its way to the channel, in it, or
\* with a worker.
C9_BoundedWorkers ==
    /\ BagCardinality(workers) <= NumCPU
    /\ gitCloneWorkers <= NumCPU
    /\ BagCardinality(workers) = Min(NumCPU, nSubmit - TasksAt("permit"))
    /\ \A P \in DOMAIN pendingGit : InFlight(P) \/ QueueItems(P) = 1 \/ WorkersOn(P) = 1

\* C9, its case: more roots were submitted than there are permits, and all
\* were sent.
C9_Witness ==
    /\ nSubmit > NumCPU
    /\ BagCardinality(workers) = NumCPU
    /\ tasks = EmptyBag
    /\ Len(gitClones) = NumCPU

\* C10: no goroutine has panicked, and every root in the channel or just
\* received by a worker has its entry in pendingGit.
C10_NoWorkerPanic ==
    /\ Running
    /\ \A i \in DOMAIN gitClones : gitClones[i] \in DOMAIN pendingGit
    /\ \A w \in BagToSet(workers) : w.pc = "load" => w.modulePath \in DOMAIN pendingGit

\* C10, its case: a worker has received a root while a submitter waits to send.
C10_Witness ==
    /\ \E w \in BagToSet(workers) : w.pc = "load"
    /\ TasksAt("send") > 0

\* C11: no step removes or changes <P>/.git or <P>/.vcs once they exist, and
\* a worker whose rename finds <P>/.git there goes no further: it removes its
\* temporary directory and makes no link.
C11_CachedNeverReplaced ==
    [][/\ \A P \in DOMAIN git : P \in DOMAIN git' /\ git'[P] = git[P]
       /\ \A P \in DOMAIN vcs : P \in DOMAIN vcs' /\ vcs'[P] = vcs[P]
       /\ \A w \in BagToSet(workers) :
              (/\ w.pc = "rename"
               /\ w.modulePath \in DOMAIN git
               /\ CopiesIn(w, workers') < CopiesIn(w, workers)) =>
                  \A x \in BagToSet(workers') :
                      ~(x.modulePath = w.modulePath /\ (x.pc = "symlink" \/ x.tmp # "none"))
      ]_vars

\* C11, its case: a second clone of P has ended and is about to be renamed
\* while <P>/.git and <P>/.vcs exist.
C11_Witness ==
    \E w \in BagToSet(workers) :
        /\ w.pc = "rename"
        /\ w.modulePath \in DOMAIN git
        /\ w.modulePath \in DOMAIN vcs

\* The task t takes a step.
Steps(t) == CopiesIn(t, tasks') < CopiesIn(t, tasks)

\* C12: a task whose repository was found in the cache stores its root in
\* pendingGit only after its git log has failed, the retry included; and its
\* steps up to and including the git log change neither pendingGit, nor the
\* channel, nor the permit counter, nor the workers.
C12_FastPathEnqueuesNothing ==
    /\ [](\A t \in BagToSet(tasks) :
              (t.remote = "" /\ t.pc \in {"store", "permit", "restore", "send"}) => t.err)
    /\ [][\A t \in BagToSet(tasks) :
              (t.pc \in {"refresh", "gitlog"} /\ Steps(t)) =>
                  UNCHANGED <<pendingGit, gitClones, gitCloneWorkers, workers, nSubmit>>
         ]_vars

\* C12, its case: a task has found its repository in the cache and asks it
\* for the version, while nothing is pending, queued or running.
C12_Witness ==
    /\ \E t \in BagToSet(tasks) :
           t.pc = "gitlog" /\ t.remote = "" /\ t.modulePath \in DOMAIN vcs
    /\ pendingGit = << >>
    /\ gitClones = << >>
    /\ \A w \in BagToSet(workers) : ~Busy(w)

\* C13: once the clone of P has succeeded, <P>/.vcs eventually exists.
C13_CloneEventuallyCached ==
    \A P \in Roots :
        (\E w \in BagToSet(workers) :
             w.pc = "rename" /\ w.tmp = "complete" /\ w.modulePath = P)
            ~> (P \in DOMAIN vcs)

\* The requests for @latest and @v/list.
RedirectOnlyPaths == {ModA \o AtLatest, ModA \o AtV \o List}

\* C14: a request for @latest or @v/list is answered 301 with the upstream
\* URL of its path, and starts no task, stores no key and no root, and sends
\* nothing to the channel.
C14_LatestListRedirectOnly ==
    [][(nReq' = nReq + 1 /\ lastResp'.path \in RedirectOnlyPaths) =>
           /\ lastResp'.code = 301
           /\ lastResp'.location = UpstreamProxy \o <<"/">> \o lastResp'.path
           /\ UNCHANGED <<pendingMod, pendingGit, gitClones, gitCloneWorkers, tasks,
                          workers, nSubmit>>
      ]_vars

\* C14, its case: the version list was asked for while a task was running
\* and its clone pending.
C14_Witness ==
    /\ lastResp.path = ModA \o AtV \o List
    /\ lastResp.code = 301
    /\ tasks # EmptyBag
    /\ pendingMod # {}

\* The cached-only requests for a property that is not an .info, .mod or .zip.
OtherPropertyPaths ==
    {ModA \o AtLatest, ModA \o AtV \o List, ModA \o AtV \o V100,
     ModA \o AtV \o V100 \o <<".", "t", "x", "t">>}

\* C15: a cached-only request for @latest, @v/list or a property with
\* another extension is answered 500, and no lookup in the cache is made.
C15_CachedOnlyArtifactsOnly ==
    lastResp.path \in OtherPropertyPaths => (lastResp.code = 500 /\ ~lastResp.queried)

\* C15, its case: the version list of a cached module was asked for and refused.
C15_Witness ==
    /\ lastResp.path = ModA \o AtV \o List
    /\ lastResp.code = 500
    /\ ModA \in DOMAIN vcs

\* The prefixes of a path that have a .vcs link.
CachedPrefixes(modulePath) == PrefixesOf(modulePath) \cap DOMAIN vcs

\* C16: the lookup finds a root iff some prefix of the module path has a
\* .vcs link; the root is then the longest such prefix, the target is its
\* link's, and root, '/', sub-path make the module path (the sub-path is
\* empty when the module path is the root).
C16_LongestCachedPrefix ==
    call.fn = "checkModVcsLocal" =>
        /\ call.out.found <=> CachedPrefixes(call.modulePath) # {}
        /\ call.out.found =>
               /\ call.out.parentPath \in CachedPrefixes(call.modulePath)
               /\ \A P \in CachedPrefixes(call.modulePath) :
                      Len(P) <= Len(call.out.parentPath)
               /\ call.out.target = vcs[call.out.parentPath]
               /\ call.modulePath =
                      IF call.out.subPath = <<>> THEN call.out.parentPath
                      ELSE call.out.parentPath \o <<"/">> \o call.out.subPath
               /\ call.out.subPath = <<>> <=> call.out.parentPath = call.modulePath

\* C16, its case: a shorter and a longer prefix have a .vcs link, the module
\* path itself has none, and the longer prefix was returned.
C16_Witness ==
    /\ call.fn = "checkModVcsLocal"
    /\ call.modulePath = ModAB \o <<"/", "c">>
    /\ {Host, ModAB} \subseteq DOMAIN vcs
    /\ call.modulePath \notin DOMAIN vcs
    /\ call.out.found
    /\ call.out.parentPath = ModAB
    /\ call.out.subPath = <<"c">>

\* A component that is 'v' and then an optional sign and one or more digits.
IsVTag(comp) ==
    /\ Len(comp) >= 2
    /\ comp[1] = "v"
    /\ \/ \A i \in 2..Len(comp) : comp[i] \in Digits
       \/ /\ Len(comp) >= 3
          /\ comp[2] \in {"+", "-"}
          /\ \A i \in 3..Len(comp) : comp[i] \in Digits

\* The last '/'-separated component of a path.
LastComponent(path) == Slice(path, LastIndexByte(path, "/") + 1, Len(path))

\* The path has two components or more and its last one is a tag.
EndsInTag(path) == Count(path, "/") >= 1 /\ IsVTag(LastComponent(path))

\* C17 as stated: where the split succeeds, the split of the path it
\* returned returns that path with nothing split off.
C17_SplitIdempotent ==
    (call.fn = "splitModuleMajorVer" /\ call.out.ok) =>
        SplitModuleMajorVer(call.out.path) =
            [path |-> call.out.path, major |-> <<>>, ok |-> TRUE]

\* C17: where the split succeeds it takes at most the last component off:
\* the path it returns, followed by '/' and the tag when there is one, is
\* the module path; the split of the returned path succeeds, and returns
\* that path with nothing split off exactly when that path does not itself
\* end in a tag.
C17_SplitTakesOneComponent ==
    (call.fn = "splitModuleMajorVer" /\ call.out.ok) =>
        /\ call.modulePath =
               IF call.out.major = <<>> THEN call.out.path
               ELSE call.out.path \o <<"/">> \o call.out.major
        /\ call.out.major # <<>> <=> EndsInTag(call.modulePath)
        /\ SplitModuleMajorVer(call.out.path).ok
        /\ SplitModuleMajorVer(call.out.path) =
               [path |-> call.out.path, major |-> <<>>, ok |-> TRUE]
           <=> ~EndsInTag(call.out.path)

\* C17, its case: x.y/v2/v2 was split into x.y/v2 and v2, and x.y/v2 splits again.
C17_Witness ==
    /\ call.fn = "splitModuleMajorVer"
    /\ call.modulePath = Host \o <<"/", "v", "2", "/", "v", "2">>
    /\ call.out.path = Host \o <<"/", "v", "2">>
    /\ call.out.major = <<"v", "2">>

\* N of a last component vN is 2 or more.
IsMajorTag(comp) ==
    /\ Len(comp) >= 2
    /\ comp[1] = "v"
    /\ \A i \in 2..Len(comp) : comp[i] \in Digits
    /\ \E i \in 2..Len(comp) :
           comp[i] \notin {"0", "1"} \/ (comp[i] = "1" /\ i < Len(comp))

\* The path ends in /vN with N a number that is 2 or more.
EndsInMajor(path) == Count(path, "/") >= 1 /\ IsMajorTag(LastComponent(path))

\* C18: an accepted pair has the incompatible flag only when the module path
\* does not end in /vN, N >= 2.
C18_IncompatOnlyWithoutMajor ==
    (call.fn = "checkModulePathVer" /\ call.out.ok /\ call.out.incompat) =>
        ~EndsInMajor(call.modulePath)

\* C19: for a path outside gopkg.in/ that splits, the pair is accepted iff a
\* tag was split off, or the version starts with v0. or v1., or its build is
\* +incompatible.
C19_AcceptedIff ==
    (/\ call.fn = "checkModulePathVer"
     /\ ~HasPrefix(call.modulePath, GopkgIn)
     /\ SplitModuleMajorVer(call.modulePath).ok) =>
        (call.out.ok <=>
            \/ SplitModuleMajorVer(call.modulePath).major # <<>>
            \/ HasPrefix(call.ver, <<"v", "0", ".">>)
            \/ HasPrefix(call.ver, <<"v", "1", ".">>)
            \/ SemverBuild(call.ver) = PlusIncompatible)

\* The text after the last dot of a path that ends in .vN, else "".
GopkgMajor(path) ==
    IF TrailingDigits(path) >= 1
       /\ HasSuffix(SubSeq(path, 1, Len(path) - TrailingDigits(path)), <<".", "v">>)
    THEN Slice(path, Len(path) - TrailingDigits(path) - 1, Len(path))
    ELSE <<>>

IsUnsignedTag(comp) ==
    /\ Len(comp) >= 2
    /\ comp[1] = "v"
    /\ \A i \in 2..Len(comp) : comp[i] \in Digits

\* C21: where the split succeeds, the last component of a path of two
\* components or more is split off as the major tag if and only if it is v
\* followed by a non-negative integer; in every other case, a last component
\* with a sign and a path of one component included, the whole path is
\* returned and the tag is empty.
C21_TagIffUnsignedInteger ==
    (call.fn = "splitModuleMajorVer" /\ call.out.ok) =>
        IF Count(call.modulePath, "/") >= 1 /\ IsUnsignedTag(LastComponent(call.modulePath))
        THEN /\ call.out.major = LastComponent(call.modulePath)
             /\ call.out.path \o <<"/">> \o call.out.major = call.modulePath
        ELSE /\ call.out.major = <<>>
             /\ call.out.path = call.modulePath

\* C27 as stated: the Location of a redirect is the upstream URL of the full
\* incoming path, the configured prefix included.
C27_LocationKeepsPrefix ==
    \A full \in IncomingPaths :
        (lastResp.path = Stripped[full] /\ lastResp.code = 301) =>
            lastResp.location = UpstreamProxy \o full

\* C27: the Location of a redirect is the upstream URL of the incoming path
\* below the configured prefix: GET /p/x.y/a/@v/v1.0.0.zip is redirected to
\* https://proxy.golang.org/x.y/a/@v/v1.0.0.zip.
C27_LocationBelowPrefix ==
    \A full \in IncomingPaths :
        (lastResp.path = Stripped[full] /\ lastResp.code = 301) =>
            /\ Prefix \o lastResp.path = full
            /\ lastResp.location = UpstreamProxy \o <<"/">> \o lastResp.path

\* C27, its case: the .zip request of x.y/a under the prefix was redirected.
C27_Witness ==
    /\ Prefix \o lastResp.path \in IncomingPaths
    /\ lastResp.path = ModA \o AtV \o V100 \o ExtZip
    /\ lastResp.code = 301
    /\ lastResp.location = UpstreamProxy \o <<"/">> \o ModA \o AtV \o V100 \o ExtZip

\* The worker w ends its clone with an error in this step: it leaves the
\* clone and a worker more waits for the next root.
CloneFails(w) ==
    /\ w.pc = "clone"
    /\ CopiesIn(w, workers') < CopiesIn(w, workers)
    /\ CopiesIn(NewWorker, workers') > CopiesIn(NewWorker, workers)

\* C29: the step in which the clone of root P fails changes neither <P>/.git
\* nor <P>/.vcs nor anything else of the cache, leaves no worker with a
\* temporary directory of P, and removes P from pendingGit, so that the next
\* cacheModGit of P stores P and enqueues it again.
C29_FailedCloneLeavesCache ==
    [][\A w \in BagToSet(workers) :
           CloneFails(w) =>
               /\ git' = git
               /\ vcs' = vcs
               /\ w.modulePath \notin DOMAIN pendingGit'
               /\ \A x \in BagToSet(workers') :
                      x.modulePath = w.modulePath => x.tmp = "none"
      ]_vars

\* C29, its case: the only worker clones x.y/a for the second submission
\* while nothing is cached: the clone before it failed and a later request
\* has enqueued the root again.
C29_Witness ==
    /\ nSubmit = 2
    /\ git = << >>
    /\ vcs = << >>
    /\ gitClones = << >>
    /\ tasks = EmptyBag
    /\ DOMAIN pendingGit = {ModA}
    /\ BagCardinality(workers) = 1
    /\ \E w \in BagToSet(workers) : w.pc = "clone" /\ w.modulePath = ModA

\* The commands of serveModGit that are git archive runs.
ArchiveCommands == {"archive-mod", "archive-survey", "archive-zip", "archive-license"}

\* C22: a pseudo-version request that has ended gave an artifact only if the
\* commit time that git log printed is the time the pseudo-version carries;
\* otherwise the answer is 500, with the timestamp mismatch as its error when
\* the commit time was read, and no git archive was run.
C22_PseudoNeedsCommitTime ==
    (serve.pc = "done" /\ ServePseudo[serve.ver]) =>
        IF /\ serve.tm # NoTime
           /\ ServeTime[serve.ver].ok
           /\ UnixUTC(serve.tm) = ServeTime[serve.ver].t
        THEN TRUE
        ELSE /\ serve.code = 500
             /\ serve.tm # NoTime => serve.err = "timestamp mismatch"
             /\ \A i \in 1..Len(serve.cmds) : serve.cmds[i].cmd \notin ArchiveCommands

\* The go.mod extractions of the request, in the order they were tried.
ModAttempts == SelectSeq(serve.cmds, LAMBDA c : c.cmd = "archive-mod")

\* The directory of the i-th extraction as the order tag first, then
\* without the tag, has it.
ModDir(i) ==
    IF serve.major # <<>> /\ i = 1
    THEN (IF serve.subPath # <<>> THEN serve.subPath \o <<"/">> ELSE <<>>) \o serve.major
    ELSE serve.subPath

\* C23 as stated: a .mod request that has tried an extraction never fails.
C23_ModNeverFails ==
    (serve.pc = "done" /\ serve.ext = ExtMod /\ Len(ModAttempts) >= 1) =>
        serve.err = ""

\* C23: a .mod request tries go.mod under <subdir>/<major tag> when there is
\* a tag, then under <subdir>, in at most two extractions (one without a
\* tag); it fails only when git archive could not be started, answers with
\* the go.mod of the first extraction that succeeds, and with the
\* synthesized module line of the full module path when all of them failed.
C23_ModTriesThenSynthesizes ==
    (serve.pc = "done" /\ serve.ext = ExtMod /\ Len(ModAttempts) >= 1) =>
        /\ Len(ModAttempts) <= (IF serve.major # <<>> THEN 2 ELSE 1)
        /\ \A i \in 1..Len(ModAttempts) :
               TrimSuffix(ModAttempts[i].arg, <<"/">>) = serve.refspec \o TreeColon \o ModDir(i)
        /\ serve.err \in {"", "Failed to run git archive"}
        /\ serve.err = "" =>
               /\ serve.code = 200
               /\ serve.kind \in {"file", "synthesized"}
        /\ serve.kind = "file" =>
               serve.data = ModAttempts[Len(ModAttempts)].arg \o GoMod
        /\ serve.kind = "synthesized" =>
               /\ Len(ModAttempts) = (IF serve.major # <<>> THEN 2 ELSE 1)
               /\ serve.data =
                      <<"m", "o", "d", "u", "l", "e", " ">> \o ModA
                      \o (IF serve.subPath # <<>> THEN <<"/">> \o serve.subPath ELSE <<>>)
                      \o (IF serve.major # <<>> THEN <<"/">> \o serve.major ELSE <<>>)
                      \o <<"\n">>

\* C23, its case: with the tag v2 and the sub-directory c both extractions
\* failed and the module line was synthesized.
C23_Witness ==
    /\ serve.pc = "done"
    /\ serve.ext = ExtMod
    /\ serve.major = <<"v", "2">>
    /\ serve.subPath = <<"c">>
    /\ Len(ModAttempts) = 2
    /\ serve.kind = "synthesized"
    /\ serve.code = 200

\* The fourth pass was tried: git archive ... LICENSE was run or its start
\* was tried.
LicenseAttempted == \E i \in 1..Len(serve.cmds) : serve.cmds[i].cmd = "archive-license"

\* The first pass found a LICENSE where the module lives: in the directory
\* of the major tag when that holds a go.mod, else at the top of the tree.
LicenseAtScope ==
    IF serve.major \o <<"/">> \o GoMod \in serve.files
    THEN serve.major \o <<"/">> \o License \in serve.files
    ELSE License \in serve.files

\* C24 as stated: the fourth pass is skipped exactly when the first found no
\* LICENSE and the request has neither sub-directory nor major tag.
C24_LicensePassSkippedIfNone ==
    (serve.pc = "done" /\ serve.kind = "zip") =>
        (~LicenseAttempted <=>
            (~LicenseAtScope /\ serve.subPath = <<>> /\ serve.major = <<>>))

\* C24: the fourth pass is tried exactly when the first pass found no
\* LICENSE at the scope of the module and the request has a sub-directory or
\* a major tag; it is skipped when a LICENSE was found, and when the request
\* has neither sub-directory nor major tag.
C24_LicensePassWhenMissing ==
    /\ LicenseAttempted =>
           (~LicenseAtScope /\ (serve.subPath # <<>> \/ serve.major # <<>>))
    /\ (serve.pc = "done" /\ serve.kind = "zip") =>
           (LicenseAttempted <=>
               (~LicenseAtScope /\ (serve.subPath # <<>> \/ serve.major # <<>>)))

\* C24, its case: a .zip of the sub-directory c whose first pass found a
\* LICENSE was served without a fourth pass.
C24_Witness ==
    /\ serve.pc = "done"
    /\ serve.kind = "zip"
    /\ serve.subPath = <<"c">>
    /\ LicenseAtScope
    /\ ~LicenseAttempted

\* C25: no subprocess keeps a cached-only request waiting forever: every
\* call of serveModGit returns.
C25_EveryCallReturns ==
    (serve.pc \notin {"idle", "done"}) ~> (serve.pc = "done")

\* C26: when a cached-only request has ended, every streaming git subprocess
\* it started has had its stdout closed and has been waited for.
C26_StartedAreWaited ==
    serve.pc = "done" =>
        /\ serve.closed = serve.started
        /\ serve.waited = serve.started

\* C28: a .zip request that has returned an error has no open archive
\* descriptor.
C28_ErrorClosesArchive ==
    (serve.pc = "done" /\ serve.ext = ExtZip /\ serve.err # "") =>
        serve.archive # "open"

====
